---- MODULE Spec2Model ----
(***************************************************************************)
(* Model of the seo_lib library:                                           *)
(*   validateHeadingStructure  - the heading-hierarchy validator           *)
(*   createSemanticHeading     - the semantic heading generator            *)
(*   SEO, AIMeta               - the head-tag components                   *)
(*   createEnhancedFAQSchema, createEnhancedOpenGraph,                     *)
(*   createEnhancedTwitterCard, createAIMetaTags - the advancedSEO         *)
(*                               generators                                *)
(* Every function of the library is pure and synchronous, so each          *)
(* specification draws the arguments of one call in its initial state and  *)
(* has one action that performs the call and stores what it returns.       *)
(* JavaScript strings are TLA+ strings; s.length is Len(s),                *)
(* s.substring(a, b) is SubSeq(s, a + 1, b) and `${n}` is ToString(n).     *)
(***************************************************************************)
EXTENDS Integers, Sequences, FiniteSets, TLC

VARIABLES
    pc,          \* "call" before the function runs, "done" once it returned
    headings,    \* argument of validateHeadingStructure
    validation,  \* value returned by validateHeadingStructure
    config,      \* argument of createSemanticHeading
    element,     \* value returned by createSemanticHeading
    fn,          \* component or generator that ran, "" before the call
    args,        \* its props / arguments
    env,         \* what it reads from its surroundings (clock, window, random)
    result       \* what it returned

vars == <<pc, headings, validation, config, element, fn, args, env, result>>

\* Value of a variable that the running specification does not use.
None == [none |-> TRUE]

(***************************************************************************)
(* Bounds of the model                                                     *)
(***************************************************************************)
\* Longest heading sequence handed to the validator.
MaxHeadings == 3

(***************************************************************************)
(* Program constants                                                       *)
(***************************************************************************)
MaxLevel == 6
MinTextLength == 3
MaxTextLength == 70
PreviewLength == 30

\* HeadingConfig.level: 1 | 2 | 3 | 4 | 5 | 6
Levels == 1..MaxLevel

(***************************************************************************)
(* String helpers                                                          *)
(***************************************************************************)
\* s.substring(start, end) for 0 <= start <= end, end clamped to s.length
Substring(s, start, end) ==
    SubSeq(s, start + 1, IF end > Len(s) THEN Len(s) ELSE end)

\* s.charAt(i), 0-based
CharAt(s, i) == SubSeq(s, i + 1, i + 1)

\* s.startsWith(p)
StartsWith(s, p) == Len(s) >= Len(p) /\ SubSeq(s, 1, Len(p)) = p

\* s.endsWith(p)
EndsWith(s, p) == Len(s) >= Len(p) /\ SubSeq(s, Len(s) - Len(p) + 1, Len(s)) = p

\* s.includes(p)
Includes(s, p) ==
    \E i \in 0..(Len(s) - Len(p)) : SubSeq(s, i + 1, i + Len(p)) = p

(***************************************************************************)
(* validateHeadingStructure                                                *)
(***************************************************************************)
\* headings.filter(h => h.level === 1).length, then the if / else-if that
\* pushes at most one error onto the (still empty) errors array.
H1Errors_FirstOnly(hs) ==
    LET h1Count == IF Len(hs) > 0 /\ hs[1].level = 1 THEN 1 ELSE 0
    IN  IF h1Count = 0
        THEN <<"Missing H1 tag - every page should have exactly one H1">>
        ELSE <<>>

H1Errors(hs) ==
    LET h1Count == Len(SelectSeq(hs, LAMBDA h : h.level = 1))
    IN  IF h1Count = 0
        THEN <<"Missing H1 tag - every page should have exactly one H1">>
        ELSE IF h1Count > 1
        THEN <<"Multiple H1 tags found (" \o ToString(h1Count)
                 \o ") - use only one H1 per page">>
        ELSE <<>>

\* condition of the hierarchy check
LevelJump_AnyIncrease(previous, current) ==
    current.level > previous.level

LevelJump(previous, current) ==
    current.level > previous.level + 1

LevelJumpMessage(previous, current) ==
    "Heading level jump from H" \o ToString(previous.level) \o " to H"
        \o ToString(current.level) \o " - avoid skipping levels"

\* for (let i = 1; i < headings.length; i++) { ... }   (i is 0-based)
RECURSIVE HierarchyLoop(_, _, _)
HierarchyLoop(hs, i, errors) ==
    IF ~(i < Len(hs))
    THEN errors
    ELSE LET current == hs[i + 1]
             previous == hs[i]
         IN  HierarchyLoop(hs, i + 1,
                 IF LevelJump(previous, current)
                 THEN Append(errors, LevelJumpMessage(previous, current))
                 ELSE errors)

TooShort(heading) == Len(heading.text) < MinTextLength

TooShortMessage_ZeroBased(index) ==
    "Heading " \o ToString(index) \o " is too short - use descriptive text"

TooShortMessage(index) ==
    "Heading " \o ToString(index + 1) \o " is too short - use descriptive text"

TooLong(heading) == Len(heading.text) > MaxTextLength

TooLongMessage_WholeText(heading) ==
    "Heading \"" \o heading.text
        \o "...\" is long - consider shortening for better SEO"

TooLongMessage(heading) ==
    "Heading \"" \o Substring(heading.text, 0, PreviewLength)
        \o "...\" is long - consider shortening for better SEO"

\* headings.forEach((heading, index) => { ... })   (index is 0-based)
RECURSIVE TextLoop(_, _, _)
TextLoop(hs, index, found) ==
    IF ~(index < Len(hs))
    THEN found
    ELSE LET heading == hs[index + 1]
             errors1 == IF TooShort(heading)
                        THEN Append(found.errors, TooShortMessage(index))
                        ELSE found.errors
             suggestions1 == IF TooLong(heading)
                             THEN Append(found.suggestions, TooLongMessage(heading))
                             ELSE found.suggestions
         IN  TextLoop(hs, index + 1,
                      [errors |-> errors1, suggestions |-> suggestions1])

\* A validator that stops at the first rule that reports an error.
CollectFindings_ShortCircuit(hs) ==
    IF H1Errors(hs) # <<>>
    THEN [errors |-> H1Errors(hs), suggestions |-> <<>>]
    ELSE IF HierarchyLoop(hs, 1, <<>>) # <<>>
    THEN [errors |-> HierarchyLoop(hs, 1, <<>>), suggestions |-> <<>>]
    ELSE TextLoop(hs, 0, [errors |-> <<>>, suggestions |-> <<>>])

\* A validator that checks the texts before the hierarchy.
CollectFindings_TextFirst(hs) ==
    LET texts == TextLoop(hs, 0, [errors |-> H1Errors(hs), suggestions |-> <<>>])
    IN  [errors |-> HierarchyLoop(hs, 1, texts.errors),
         suggestions |-> texts.suggestions]

\* The body of validateHeadingStructure up to its return statement: the
\* errors and suggestions arrays after the three checks ran in sequence.
CollectFindings(hs) ==
    TextLoop(hs, 0, [errors |-> HierarchyLoop(hs, 1, H1Errors(hs)),
                     suggestions |-> <<>>])

validateHeadingStructure_SuggestionsCount(hs) ==
    LET found == CollectFindings(hs)
    IN  [isValid |-> Len(found.errors) = 0 /\ Len(found.suggestions) = 0,
         errors |-> found.errors,
         suggestions |-> found.suggestions]

validateHeadingStructure(hs) ==
    LET found == CollectFindings(hs)
    IN  [isValid |-> Len(found.errors) = 0,
         errors |-> found.errors,
         suggestions |-> found.suggestions]

(***************************************************************************)
(* Arguments of the validator                                              *)
(***************************************************************************)
ShortText == "Hi"                   \* 2 characters
MinimalText == "FAQ"                \* 3 characters
LongestPlainText ==                 \* 70 characters
    "Connect Your Web3 Wallet to Send and Receive Secure Private Email Now."
OverlongText ==                     \* 71 characters
    "This is a very long heading that probably should be shortened for SEO!!"

ValidatorTexts == {ShortText, MinimalText, LongestPlainText, OverlongText}

ValidatorHeadings == [level : Levels, text : ValidatorTexts]

HeadingSequences == UNION {[1..n -> ValidatorHeadings] : n \in 0..MaxHeadings}

(***************************************************************************)
(* Specification of one call of validateHeadingStructure                   *)
(***************************************************************************)
InitValidate ==
    /\ pc = "call"
    /\ headings \in HeadingSequences
    /\ validation = None
    /\ config = None
    /\ element = None
    /\ fn = ""
    /\ args = None
    /\ env = None
    /\ result = None

Validate ==
    /\ pc = "call"
    /\ validation' = validateHeadingStructure(headings)
    /\ pc' = "done"
    /\ UNCHANGED <<headings, config, element, fn, args, env, result>>

NextValidate == Validate

SpecValidate == InitValidate /\ [][NextValidate]_vars

(***************************************************************************)
(* createSemanticHeading                                                   *)
(***************************************************************************)
\* A HeadingConfig is a record whose domain holds "level" and "text" and
\* any of the optional keys "className", "id", "semanticContext"; a key
\* that is not in the domain is undefined.
Has(cfg, key) == key \in DOMAIN cfg

\* destructuring with a default: const { key = dflt } = config
OrDefault(cfg, key, dflt) == IF Has(cfg, key) THEN cfg[key] ELSE dflt

SemanticContexts ==
    {"page-title", "section", "subsection", "feature", "benefit", "step"}

seoClassMapping(level) ==
    CASE level = 1 -> "text-4xl md:text-5xl lg:text-6xl font-bold leading-tight"
      [] level = 2 -> "text-3xl md:text-4xl font-bold leading-tight"
      [] level = 3 -> "text-2xl md:text-3xl font-bold leading-tight"
      [] level = 4 -> "text-xl md:text-2xl font-semibold leading-tight"
      [] level = 5 -> "text-lg md:text-xl font-semibold leading-tight"
      [] level = 6 -> "text-base md:text-lg font-medium leading-tight"

contextualStyling(semanticContext) ==
    CASE semanticContext = "page-title" -> "text-gray-900 dark:text-white mb-6"
      [] semanticContext = "section" -> "text-gray-900 dark:text-white mb-4"
      [] semanticContext = "subsection" -> "text-gray-900 dark:text-white mb-3"
      [] semanticContext = "feature" -> "text-gray-900 dark:text-white mb-2"
      [] semanticContext = "benefit" -> "text-blue-600 dark:text-blue-400 mb-2"
      [] semanticContext = "step" -> "text-green-600 dark:text-green-400 mb-2"

FilterBoolean_KeepAll(segments) == segments

\* array.filter(Boolean) on an array of strings: the empty string is falsy
FilterBoolean(segments) == SelectSeq(segments, LAMBDA seg : seg # "")

\* array.join(separator)
RECURSIVE Join(_, _)
Join(segments, separator) ==
    IF segments = <<>>
    THEN ""
    ELSE IF Len(segments) = 1
    THEN segments[1]
    ELSE segments[1] \o separator \o Join(Tail(segments), separator)

UpperLetters == "ABCDEFGHIJKLMNOPQRSTUVWXYZ"
LowerLetters == "abcdefghijklmnopqrstuvwxyz"
Digits == "0123456789"

\* The set of the characters of a string.
CharsOf(s) == {CharAt(s, i) : i \in 0..(Len(s) - 1)}

UpperChars == CharsOf(UpperLetters)
LowerChars == CharsOf(LowerLetters)
DigitChars == CharsOf(Digits)

\* toLowerCase of one ASCII character
ToLowerChar(c) ==
    IF c \in UpperChars
    THEN LET i == CHOOSE k \in 0..25 : CharAt(UpperLetters, k) = c
         IN  CharAt(LowerLetters, i)
    ELSE c

\* text.toLowerCase() on ASCII text
RECURSIVE ToLowerCase(_)
ToLowerCase(s) ==
    IF s = ""
    THEN ""
    ELSE ToLowerChar(CharAt(s, 0)) \o ToLowerCase(Substring(s, 1, Len(s)))

IsAlnum_LettersOnly(c) == c \in LowerChars

\* the character class [a-z0-9]
IsAlnum(c) == c \in LowerChars \/ c \in DigitChars

\* Index just past the run of characters outside [a-z0-9] that starts at i.
RECURSIVE RunEnd(_, _)
RunEnd(s, i) ==
    IF i < Len(s) /\ ~IsAlnum(CharAt(s, i)) THEN RunEnd(s, i + 1) ELSE i

RECURSIVE ReplaceEachFrom(_, _, _)
ReplaceEachFrom(s, i, out) ==
    IF ~(i < Len(s))
    THEN out
    ELSE ReplaceEachFrom(s, i + 1,
             out \o (IF IsAlnum(CharAt(s, i)) THEN CharAt(s, i) ELSE "-"))

\* The regular expression without its +: every character is replaced alone.
ReplaceNonAlnumRuns_EachChar(s) == ReplaceEachFrom(s, 0, "")

\* Left-to-right scan of s.replace(/[^a-z0-9]+/g, '-') from index i.
RECURSIVE ReplaceRunsFrom(_, _, _)
ReplaceRunsFrom(s, i, out) ==
    IF ~(i < Len(s))
    THEN out
    ELSE IF IsAlnum(CharAt(s, i))
    THEN ReplaceRunsFrom(s, i + 1, out \o CharAt(s, i))
    ELSE ReplaceRunsFrom(s, RunEnd(s, i), out \o "-")

\* s.replace(/[^a-z0-9]+/g, '-')
ReplaceNonAlnumRuns(s) == ReplaceRunsFrom(s, 0, "")

\* s.replace(/^-|-$/g, ''): a hyphen at index 0 matches ^-, and a hyphen at
\* the last index, when it was not consumed by the first match, matches -$.
TrimHyphens(s) ==
    LET first == Len(s) > 0 /\ CharAt(s, 0) = "-"
        last == Len(s) > 1 /\ CharAt(s, Len(s) - 1) = "-"
    IN  Substring(s, IF first THEN 1 ELSE 0,
                     IF last THEN Len(s) - 1 ELSE Len(s))

\* text.toLowerCase().replace(/[^a-z0-9]+/g, '-').replace(/^-|-$/g, '')
GenerateId(text) == TrimHyphens(ReplaceNonAlnumRuns(ToLowerCase(text)))

createSemanticHeading(cfg) ==
    LET level == cfg.level
        text == cfg.text
        className == OrDefault(cfg, "className", "")
        semanticContext == OrDefault(cfg, "semanticContext", "section")
        tagName == "h" \o ToString(level)
        finalClassName ==
            Join(FilterBoolean(<<seoClassMapping(level),
                                 contextualStyling(semanticContext),
                                 className>>), " ")
        \* id || slug: an undefined or empty id is falsy
        headingId == IF Has(cfg, "id") /\ cfg.id # ""
                     THEN cfg.id
                     ELSE GenerateId(text)
    IN  [type |-> tagName,
         props |-> [id |-> headingId,
                    className |-> finalClassName,
                    ariaLevel |-> level,
                    children |-> text]]

(***************************************************************************)
(* Arguments of createSemanticHeading                                      *)
(***************************************************************************)
\* Longest generated heading text.
MaxTextChars == 4

\* One character of each kind the slug treats differently: a lowercase
\* letter, an uppercase letter, a digit, a hyphen, a space and a symbol.
TextAlphabet == {"a", "B", "7", "-", " ", "&"}

RECURSIVE TextsOfLength(_)
TextsOfLength(n) ==
    IF n = 0
    THEN {""}
    ELSE {t \o c : t \in TextsOfLength(n - 1), c \in TextAlphabet}

GeneratedTexts == UNION {TextsOfLength(n) : n \in 0..MaxTextChars}

SampleTexts ==
    {"My Test Heading Here", "Test & Heading! With @Special# Chars",
     "Connect Your Web3 Wallet"}

\* All records over a set of optional keys, each key with its own values.
OptionalValues(key) ==
    CASE key = "className" -> {"", " ", "my-custom-class", "mt-4 mb-2"}
      [] key = "id" -> {"", "custom-id"}
      [] key = "semanticContext" -> SemanticContexts

OptionalParts(keys) ==
    UNION {{part \in [present -> UNION {OptionalValues(k) : k \in present}] :
                \A k \in present : part[k] \in OptionalValues(k)} :
           present \in SUBSET keys}

HeadingConfigs(texts, keys) ==
    {[level |-> l, text |-> t] @@ part :
        l \in Levels, t \in texts, part \in OptionalParts(keys)}

(***************************************************************************)
(* Specifications of one call of createSemanticHeading: SpecHeadingId      *)
(* varies the text and the id, SpecHeadingStyle the level, the context     *)
(* and the caller's class.                                                 *)
(***************************************************************************)
InitHeadingId ==
    /\ pc = "call"
    /\ config \in HeadingConfigs(GeneratedTexts \cup SampleTexts, {"id"})
    /\ element = None
    /\ headings = None
    /\ validation = None
    /\ fn = ""
    /\ args = None
    /\ env = None
    /\ result = None

InitHeadingStyle ==
    /\ pc = "call"
    /\ config \in HeadingConfigs(SampleTexts,
                                 {"className", "id", "semanticContext"})
    /\ element = None
    /\ headings = None
    /\ validation = None
    /\ fn = ""
    /\ args = None
    /\ env = None
    /\ result = None

CreateHeading ==
    /\ pc = "call"
    /\ element' = createSemanticHeading(config)
    /\ pc' = "done"
    /\ UNCHANGED <<config, headings, validation, fn, args, env, result>>

NextHeading == CreateHeading

SpecHeadingId == InitHeadingId /\ [][NextHeading]_vars

SpecHeadingStyle == InitHeadingStyle /\ [][NextHeading]_vars

(***************************************************************************)
(* Properties of createSemanticHeading                                     *)
(***************************************************************************)
Created == pc = "done"

\* Only characters of [a-z0-9-], no hyphen at either end, no two hyphens
\* in a row.
IsSlugForm(s) ==
    /\ \A i \in 0..(Len(s) - 1) :
           CharAt(s, i) \in LowerChars \cup DigitChars \cup {"-"}
    /\ ~StartsWith(s, "-")
    /\ ~EndsWith(s, "-")
    /\ ~Includes(s, "--")

\* A letter or a digit: what is left of the text in its slug.
IsWordChar(c) == c \in UpperChars \cup LowerChars \cup DigitChars

\* The slug of a text, stated position by position: a letter or digit stands
\* for itself in lower case; a character that begins a run of other
\* characters stands for one hyphen when the run lies between two letters or
\* digits; every other character stands for nothing.
RECURSIVE SlugFrom(_, _)
SlugFrom(t, i) ==
    IF i >= Len(t)
    THEN ""
    ELSE LET c == CharAt(t, i)
             piece ==
                 IF IsWordChar(c)
                 THEN ToLowerChar(c)
                 ELSE IF /\ i > 0
                         /\ IsWordChar(CharAt(t, i - 1))
                         /\ \E j \in (i + 1)..(Len(t) - 1) : IsWordChar(CharAt(t, j))
                 THEN "-"
                 ELSE ""
         IN  piece \o SlugFrom(t, i + 1)

\* C7: without an explicit id, the identifier derived from a non-empty text
\* is the lower-cased text with every run of non-alphanumeric characters
\* replaced by one hyphen and the hyphens at the ends trimmed; it has only
\* characters of [a-z0-9-], no hyphen at either end and no double hyphen.
TheoremC7 ==
    (Created /\ ~Has(config, "id") /\ config.text # "") =>
        /\ element.props.id = SlugFrom(config.text, 0)
        /\ IsSlugForm(element.props.id)

WitnessC7 ==
    /\ Created
    /\ ~Has(config, "id")
    /\ config.text = "Test & Heading! With @Special# Chars"
    /\ element.props.id = "test-heading-with-special-chars"

\* C8: identifier derivation is idempotent: a text already in slug form is
\* its own identifier, and deriving again from a derived identifier gives
\* the same identifier.
TheoremC8 ==
    (Created /\ ~Has(config, "id")) =>
        /\ IsSlugForm(config.text) => element.props.id = config.text
        /\ createSemanticHeading(
               [level |-> config.level, text |-> element.props.id]).props.id
             = element.props.id

WitnessC8 ==
    /\ Created
    /\ ~Has(config, "id")
    /\ config.text = "a-7a"
    /\ element.props.id = "a-7a"

\* C9: an explicit id is used verbatim, whatever its value; the slug of the
\* text is used only when no id is supplied.
ClaimC9 ==
    Created =>
        /\ Has(config, "id") => element.props.id = config.id
        /\ ~Has(config, "id") => element.props.id = SlugFrom(config.text, 0)

\* The caller's class brings no leading, trailing or doubled space.
CleanSpacing(s) ==
    /\ ~StartsWith(s, " ")
    /\ ~EndsWith(s, " ")
    /\ ~Includes(s, "  ")

\* C10: the node's tag is 'h' followed by the level, its aria-level is the
\* level, its content is the text, and its class string is the base class
\* of the level, the modifier class of the context ('section' when none is
\* given) and the caller's class, in this order, joined by single spaces
\* with an empty caller class skipped.
TheoremC10 ==
    Created =>
        LET callerClass == IF Has(config, "className") THEN config.className ELSE ""
            context == IF Has(config, "semanticContext")
                       THEN config.semanticContext
                       ELSE "section"
        IN  /\ element.type = "h" \o CharAt("123456", config.level - 1)
            /\ element.props.ariaLevel = config.level
            /\ element.props.children = config.text
            /\ element.props.className =
                   seoClassMapping(config.level) \o " " \o contextualStyling(context)
                       \o (IF callerClass = "" THEN "" ELSE " " \o callerClass)
            /\ CleanSpacing(callerClass) => CleanSpacing(element.props.className)

WitnessC10 ==
    /\ Created
    /\ config.level = 3
    /\ Has(config, "className")
    /\ config.className = ""
    /\ ~Has(config, "semanticContext")
    /\ element.type = "h3"
    /\ element.props.className =
           "text-2xl md:text-3xl font-bold leading-tight text-gray-900 dark:text-white mb-4"

(***************************************************************************)
(* Properties of validateHeadingStructure                                  *)
(***************************************************************************)
Validated == pc = "done"

\* What the rules are about, stated on the argument alone.
H1Positions == {i \in DOMAIN headings : headings[i].level = 1}

SkipPositions ==
    {i \in DOMAIN headings : i > 1 /\ headings[i].level > headings[i - 1].level + 1}

ShortPositions == {i \in DOMAIN headings : Len(headings[i].text) < 3}

LongPositions == {i \in DOMAIN headings : Len(headings[i].text) > 70}

\* Positions of the reported errors / suggestions that are equal to a text,
\* start with a text, or end with a text.
ErrorsEqual(msg) ==
    {k \in DOMAIN validation.errors : validation.errors[k] = msg}

ErrorsStarting(prefix) ==
    {k \in DOMAIN validation.errors : StartsWith(validation.errors[k], prefix)}

ErrorsEnding(suffix) ==
    {k \in DOMAIN validation.errors : EndsWith(validation.errors[k], suffix)}

SuggestionsEqual(msg) ==
    {k \in DOMAIN validation.suggestions : validation.suggestions[k] = msg}

\* C1: isValid is true exactly when the errors list is empty, and a result
\* whose only findings are suggestions is valid.
TheoremC1 ==
    Validated =>
        /\ validation.isValid <=> (validation.errors = <<>>)
        /\ (validation.errors = <<>> /\ validation.suggestions # <<>>)
               => validation.isValid

WitnessC1 ==
    /\ Validated
    /\ validation.suggestions # <<>>
    /\ validation.errors = <<>>
    /\ validation.isValid

\* C2: no level-1 entry gives the 'Missing H1' error; more than one gives one
\* 'Multiple H1' error carrying the number of level-1 entries; exactly one
\* level-1 entry, wherever it stands, gives neither.
TheoremC2 ==
    Validated =>
        LET n == Cardinality(H1Positions)
            missing == ErrorsStarting("Missing H1")
            multiple == ErrorsStarting("Multiple H1")
        IN  /\ n = 0 => Cardinality(missing) = 1 /\ multiple = {}
            /\ n > 1 =>
                 /\ missing = {}
                 /\ Cardinality(multiple) = 1
                 /\ \A k \in multiple :
                      StartsWith(validation.errors[k],
                          "Multiple H1 tags found (" \o ToString(n) \o ")")
            /\ n = 1 => missing = {} /\ multiple = {}

WitnessC2 ==
    /\ Validated
    /\ Cardinality(H1Positions) = 2
    /\ headings[1].level # 1
    /\ ErrorsStarting("Multiple H1 tags found (2)") # {}

\* C3: one level-jump error naming both levels for every consecutive pair
\* whose level rises by more than one, and for no other pair.
TheoremC3 ==
    Validated =>
        /\ Cardinality(ErrorsStarting("Heading level jump")) =
               Cardinality(SkipPositions)
        /\ \A i \in SkipPositions :
               Cardinality(ErrorsEqual(
                   "Heading level jump from H" \o ToString(headings[i - 1].level)
                       \o " to H" \o ToString(headings[i].level)
                       \o " - avoid skipping levels")) =
               Cardinality({j \in SkipPositions :
                   /\ headings[j - 1].level = headings[i - 1].level
                   /\ headings[j].level = headings[i].level})

WitnessC3 ==
    /\ Validated
    /\ Len(headings) = 3
    /\ headings[1].level = 2
    /\ headings[2].level = 6
    /\ headings[3].level = 1
    /\ Cardinality(ErrorsStarting("Heading level jump from H2 to H6 ")) = 1

\* C4: every entry with fewer than 3 characters gives one 'too short' error
\* citing its 1-based position; entries with 3 or more characters give none.
TheoremC4 ==
    Validated =>
        /\ Cardinality(ErrorsEnding(" is too short - use descriptive text")) =
               Cardinality(ShortPositions)
        /\ \A i \in 0..(Len(headings) + 1) :
               Cardinality(ErrorsStarting(
                   "Heading " \o ToString(i) \o " is too short")) =
               (IF i \in ShortPositions THEN 1 ELSE 0)

WitnessC4 ==
    /\ Validated
    /\ Len(headings) = 3
    /\ headings[1].text = MinimalText
    /\ headings[2].text = ShortText
    /\ headings[3].text = ShortText
    /\ ErrorsStarting("Heading 2 is too short") # {}
    /\ ErrorsStarting("Heading 3 is too short") # {}

\* C5: every entry with more than 70 characters gives one suggestion, never
\* an error, that previews the first 30 characters of its text; entries with
\* 70 characters or fewer give no suggestion.
TheoremC5 ==
    Validated =>
        /\ Len(validation.suggestions) = Cardinality(LongPositions)
        /\ \A t \in {u \in ValidatorTexts : Len(u) >= 30} :
               Cardinality(SuggestionsEqual(
                   "Heading \"" \o SubSeq(t, 1, 30)
                       \o "...\" is long - consider shortening for better SEO")) =
               Cardinality({i \in LongPositions : headings[i].text = t})
        /\ ErrorsEnding(" is long - consider shortening for better SEO") = {}

WitnessC5 ==
    /\ Validated
    /\ Len(headings) = 2
    /\ headings[1].text = LongestPlainText
    /\ headings[2].text = OverlongText
    /\ validation.suggestions =
           <<"Heading \"This is a very long heading th...\" is long - consider shortening for better SEO">>

\* C6: the validator never short-circuits: the errors are the Rule-1 error
\* (if any) plus one per level skip plus one per too-short entry, the
\* suggestions one per over-long entry; the empty sequence gives exactly the
\* 'Missing H1' error.
TheoremC6 ==
    Validated =>
        /\ Len(validation.errors) =
               (IF Cardinality(H1Positions) # 1 THEN 1 ELSE 0)
                   + Cardinality(SkipPositions) + Cardinality(ShortPositions)
        /\ Len(validation.suggestions) = Cardinality(LongPositions)
        /\ headings = <<>> =>
               /\ validation.isValid = FALSE
               /\ validation.errors =
                      <<"Missing H1 tag - every page should have exactly one H1">>
               /\ validation.suggestions = <<>>

WitnessC6 ==
    /\ Validated
    /\ Cardinality(H1Positions) # 1
    /\ SkipPositions # {}
    /\ ShortPositions # {}
    /\ LongPositions # {}
    /\ Len(validation.errors) >= 3
    /\ Len(validation.suggestions) >= 1

(***************************************************************************)
(* JavaScript values shared by the components and generators               *)
(*                                                                         *)
(* An object is a record; a key that is not in its DOMAIN is undefined.    *)
(* A value that may be a string or an array carries its type as its only   *)
(* key: [string |-> "a, b"], [array |-> <<"a", "b">>], [other |-> 0].      *)
(* A JSON object is the sequence of its <<key, value>> entries in          *)
(* insertion order; structured data is [object |-> entries] or             *)
(* [array |-> <<entries, ...>>].                                           *)
(***************************************************************************)
\* Array.isArray(value)
IsArray(value) == "array" \in DOMAIN value

\* typeof value === 'string'
IsString(value) == "string" \in DOMAIN value

\* A string property in a truthiness test: undefined and '' are both falsy.
\* StrOrEmpty gives '' for both, which is sound wherever the value is only
\* used behind such a test.
StrOrEmpty(obj, key) == IF Has(obj, key) THEN obj[key] ELSE ""

Truthy(str) == str # ""

\* a || b on strings
Or(a, b) == IF Truthy(a) THEN a ELSE b

\* {cond && <element />} in JSX: the element, or nothing
When(cond, el) == IF cond THEN <<el>> ELSE <<>>

\* array.map(f) for a one-argument operator f
MapSeq(f(_), seq) == [i \in DOMAIN seq |-> f(seq[i])]

\* JSON.stringify of an object whose values are strings without characters
\* that need escaping.
JSONEntry(entry) == "\"" \o entry[1] \o "\":\"" \o entry[2] \o "\""

JSONStringify(entries) ==
    "{" \o Join(MapSeq(JSONEntry, entries), ",") \o "}"

(***************************************************************************)
(* SEO component (components/SEO.tsx)                                      *)
(* The value is the list of the children handed to Helmet, in order.       *)
(***************************************************************************)
\* const fullTitle = title ? `${title} | ${appName}` : appName
FullTitle_AlwaysSuffixed(props) ==
    StrOrEmpty(props, "title") \o " | " \o props.config.appName

FullTitle(props) ==
    IF Truthy(StrOrEmpty(props, "title"))
    THEN props.title \o " | " \o props.config.appName
    ELSE props.config.appName

\* const metaDescription = description || defaultDescription
MetaDescription_NoDefault(props) == StrOrEmpty(props, "description")

MetaDescription(props) ==
    Or(StrOrEmpty(props, "description"),
       StrOrEmpty(props.config, "defaultDescription"))

\* const metaOgImage = ogImage || defaultOgImage || `${baseUrl}/og-image.png`
MetaOgImage(props) ==
    Or(Or(StrOrEmpty(props, "ogImage"),
          StrOrEmpty(props.config, "defaultOgImage")),
       props.config.baseUrl \o "/og-image.png")

\* const metaTwitterSite = twitterSite || defaultTwitterSite
MetaTwitterSite(props) ==
    Or(StrOrEmpty(props, "twitterSite"),
       StrOrEmpty(props.config, "defaultTwitterSite"))

\* A canonical URL that cleans up the slash between base and path.
CanonicalUrl_Normalized(props) ==
    LET base == props.config.baseUrl
        path == StrOrEmpty(props, "canonical")
    IN  IF ~Truthy(path)
        THEN ""
        ELSE IF EndsWith(base, "/") /\ StartsWith(path, "/")
        THEN base \o Substring(path, 1, Len(path))
        ELSE base \o path

\* const canonicalUrl = canonical ? `${baseUrl}${canonical}` : undefined
CanonicalUrl(props) ==
    IF Truthy(StrOrEmpty(props, "canonical"))
    THEN props.config.baseUrl \o props.canonical
    ELSE ""

\* Array.isArray(keywords) ? keywords.join(', ') : keywords
KeywordsString(props) ==
    IF ~Has(props, "keywords")
    THEN ""
    ELSE IF IsArray(props.keywords)
    THEN Join(props.keywords.array, ", ")
    ELSE props.keywords.string

\* All structured data serialized into one payload.
StructuredDataArray_Single(props) ==
    IF ~Has(props, "structuredData")
    THEN <<>>
    ELSE IF IsArray(props.structuredData)
    THEN IF props.structuredData.array = <<>>
         THEN <<>>
         ELSE << [i \in 1..(2 * Len(props.structuredData.array)) |->
                     <<"item", "merged">>] >>
    ELSE <<props.structuredData.object>>

\* structuredData ? (Array.isArray(structuredData) ? structuredData
\*                                                 : [structuredData]) : []
StructuredDataArray(props) ==
    IF ~Has(props, "structuredData")
    THEN <<>>
    ELSE IF IsArray(props.structuredData)
    THEN props.structuredData.array
    ELSE <<props.structuredData.object>>

MetaName(name, content) == [type |-> "meta", name |-> name, content |-> content]

MetaProperty(property, content) ==
    [type |-> "meta", property |-> property, content |-> content]

Link(rel, href) == [type |-> "link", rel |-> rel, href |-> href]

Script(data) ==
    [type |-> "script", scriptType |-> "application/ld+json",
     children |-> JSONStringify(data)]

SEO(props) ==
    LET appName == props.config.appName
        ogType == OrDefault(props, "ogType", "website")
        noIndex == OrDefault(props, "noIndex", FALSE)
        twitterCard == OrDefault(props, "twitterCard", "summary_large_image")
        meta == OrDefault(props, "meta", <<>>)
        links == OrDefault(props, "links", <<>>)
        fullTitle == FullTitle(props)
        metaDescription == MetaDescription(props)
        metaOgImage == MetaOgImage(props)
        metaTwitterSite == MetaTwitterSite(props)
        canonicalUrl == CanonicalUrl(props)
        keywordsString == KeywordsString(props)
        structuredDataArray == StructuredDataArray(props)
    IN  \* Primary meta tags
        <<[type |-> "title", children |-> fullTitle]>>
        \o <<MetaName("title", fullTitle)>>
        \o When(Truthy(metaDescription), MetaName("description", metaDescription))
        \o When(Truthy(keywordsString), MetaName("keywords", keywordsString))
        \o When(noIndex, MetaName("robots", "noindex, nofollow"))
        \o When(Truthy(canonicalUrl), Link("canonical", canonicalUrl))
        \* Open Graph
        \o <<MetaProperty("og:type", ogType)>>
        \o When(Truthy(canonicalUrl), MetaProperty("og:url", canonicalUrl))
        \o <<MetaProperty("og:title", fullTitle)>>
        \o When(Truthy(metaDescription),
                MetaProperty("og:description", metaDescription))
        \o <<MetaProperty("og:image", metaOgImage)>>
        \o <<MetaProperty("og:site_name", appName)>>
        \* Twitter
        \o <<MetaName("twitter:card", twitterCard)>>
        \o When(Truthy(metaTwitterSite), MetaName("twitter:site", metaTwitterSite))
        \o When(Truthy(canonicalUrl), MetaName("twitter:url", canonicalUrl))
        \o <<MetaName("twitter:title", fullTitle)>>
        \o When(Truthy(metaDescription),
                MetaName("twitter:description", metaDescription))
        \o <<MetaName("twitter:image", metaOgImage)>>
        \* Additional tags and structured data
        \o meta
        \o links
        \o MapSeq(Script, structuredDataArray)

(***************************************************************************)
(* Props of the SEO component                                              *)
(***************************************************************************)
\* Longest structured-data list handed to the component.
MaxStructuredData == 2

\* All records that give each key of options either no value or one of
\* the values options[key].
RECURSIVE PartialOf(_)
PartialOf(options) ==
    IF DOMAIN options = {}
    THEN {<<>>}
    ELSE LET k == CHOOSE x \in DOMAIN options : TRUE
             rest == PartialOf([x \in DOMAIN options \ {k} |-> options[x]])
         IN  rest \cup {(k :> v) @@ r : v \in options[k], r \in rest}

Partial(keys, Values(_)) == PartialOf([k \in keys |-> Values(k)])

\* All records that give each key of options one of the values options[key].
RECURSIVE TotalOf(_)
TotalOf(options) ==
    IF DOMAIN options = {}
    THEN {<<>>}
    ELSE LET k == CHOOSE x \in DOMAIN options : TRUE
             rest == TotalOf([x \in DOMAIN options \ {k} |-> options[x]])
         IN  {(k :> v) @@ r : v \in options[k], r \in rest}

Total(keys, Values(_)) == TotalOf([k \in keys |-> Values(k)])

\* All sequences over a set with at most n elements.
SeqsUpTo(set, n) == UNION {[1..m -> set] : m \in 0..n}

PageObject ==
    <<<<"@context", "https://schema.org">>, <<"@type", "WebPage">>,
      <<"name", "Page 1">>>>

OrgObject ==
    <<<<"@context", "https://schema.org">>, <<"@type", "Organization">>,
      <<"name", "Org">>>>

SEOConfigValues(key) ==
    CASE key = "defaultDescription" -> {"My awesome application"}
      [] key = "defaultOgImage" -> {"https://myapp.com/default.png"}
      [] key = "defaultTwitterSite" -> {"@testapp"}

SEOConfigs ==
    {[appName |-> a, baseUrl |-> b] @@ part :
        a \in {"MyApp", "Acme Mail"},
        b \in {"https://myapp.com", "https://myapp.com/"},
        part \in Partial({"defaultDescription", "defaultOgImage",
                          "defaultTwitterSite"}, SEOConfigValues)}

SEOTagValues(key) ==
    CASE key = "title" -> {"", "Dashboard"}
      [] key = "description" -> {"", "Manage your account"}
      [] key = "canonical" -> {"", "/dashboard", "//docs/"}
      [] key = "ogImage" -> {"", "https://cdn.test/page.png"}
      [] key = "twitterSite" -> {"", "@page"}

SEODataValues(key) ==
    CASE key = "title" -> {"Dashboard"}
      [] key = "keywords" ->
             {[string |-> "web3, email"], [array |-> <<"web3", "email">>],
              [array |-> <<>>]}
      [] key = "noIndex" -> {TRUE, FALSE}
      [] key = "ogType" -> {"article"}
      [] key = "twitterCard" -> {"summary"}
      [] key = "meta" -> {<<MetaName("author", "Test Author")>>}
      [] key = "links" -> {<<Link("icon", "/favicon.ico")>>}
      [] key = "structuredData" ->
             {[object |-> PageObject], [object |-> OrgObject]}
             \cup {[array |-> list] :
                     list \in SeqsUpTo({PageObject, OrgObject}, MaxStructuredData)}

(***************************************************************************)
(* Specifications of one render of SEO: SpecSEOTags varies what the        *)
(* title, description, image, Twitter and canonical tags are made of,      *)
(* SpecSEOData the structured data and the remaining props.                *)
(***************************************************************************)
Idle ==
    /\ headings = None
    /\ validation = None
    /\ config = None
    /\ element = None

InitSEOTags ==
    /\ pc = "call"
    /\ fn = ""
    /\ args \in {[config |-> c] @@ part :
                    c \in SEOConfigs,
                    part \in Partial({"title", "description", "canonical",
                                      "ogImage", "twitterSite"}, SEOTagValues)}
    /\ env = None
    /\ result = None
    /\ Idle

InitSEOData ==
    /\ pc = "call"
    /\ fn = ""
    /\ args \in {[config |-> [appName |-> "MyApp", baseUrl |-> "https://myapp.com"]]
                    @@ part :
                    part \in Partial({"title", "keywords", "noIndex", "ogType",
                                      "twitterCard", "meta", "links",
                                      "structuredData"}, SEODataValues)}
    /\ env = None
    /\ result = None
    /\ Idle

RenderSEO ==
    /\ pc = "call"
    /\ fn' = "SEO"
    /\ result' = SEO(args)
    /\ pc' = "done"
    /\ UNCHANGED <<args, env, headings, validation, config, element>>

NextSEO == RenderSEO

SpecSEOTags == InitSEOTags /\ [][NextSEO]_vars

SpecSEOData == InitSEOData /\ [][NextSEO]_vars

(***************************************************************************)
(* advancedSEO generators (utils/advancedSEO.ts)                           *)
(*                                                                         *)
(* A config is a record; readingTime is a number, lastUpdated a Date,      *)
(* written [iso |-> "..."] after the string its toISOString() returns.     *)
(* env holds what a call reads besides its argument: the browser window    *)
(* (None on a server), the clock and the values Math.random() returns.     *)
(* A tag map is a function from its keys to its values.                    *)
(***************************************************************************)
\* Reading time assumed when the config gives none.
DefaultReadingTime == 5

WhitespaceChars == {" ", "\t", "\n"}

\* String.prototype.split for a one-character separator
RECURSIVE SplitFrom(_, _, _, _)
SplitFrom(str, separator, start, i) ==
    IF i >= Len(str)
    THEN <<Substring(str, start, Len(str))>>
    ELSE IF CharAt(str, i) = separator
    THEN <<Substring(str, start, i)>> \o SplitFrom(str, separator, i + 1, i + 1)
    ELSE SplitFrom(str, separator, start, i + 1)

Split(str, separator) == SplitFrom(str, separator, 0, 0)

\* String.prototype.trim
RECURSIVE TrimStart(_)
TrimStart(str) ==
    IF str # "" /\ CharAt(str, 0) \in WhitespaceChars
    THEN TrimStart(Substring(str, 1, Len(str)))
    ELSE str

RECURSIVE TrimEnd(_)
TrimEnd(str) ==
    IF str # "" /\ CharAt(str, Len(str) - 1) \in WhitespaceChars
    THEN TrimEnd(Substring(str, 0, Len(str) - 1))
    ELSE str

Trim(str) == TrimEnd(TrimStart(str))

\* A normalization that splits a string but keeps the segments as they are.
ensureArray_NoTrim(value) ==
    IF IsArray(value)
    THEN value.array
    ELSE IF IsString(value)
    THEN FilterBoolean(Split(value.string, ","))
    ELSE <<>>

ensureArray(value) ==
    IF IsArray(value)
    THEN value.array
    ELSE IF IsString(value)
    THEN FilterBoolean(MapSeq(Trim, Split(value.string, ",")))
    ELSE <<>>

\* A resolution that never looks at the page location.
getCurrentPathname_IgnoresWindow(pathname, window) ==
    IF Truthy(pathname) THEN pathname ELSE "/"

getCurrentPathname(pathname, window) ==
    IF Truthy(pathname)
    THEN pathname
    ELSE IF window # None /\ Has(window, "location")
    THEN window.location.pathname
    ELSE "/"

getBranding(branding) ==
    [appName |-> branding.appName,
     baseUrl |-> branding.baseUrl,
     twitterHandle |-> Or(StrOrEmpty(branding, "twitterHandle"), ""),
     emailDomain |-> Or(StrOrEmpty(branding, "emailDomain"), "example.com")]

toISOString(date) == date.iso

\* A timestamp that is always taken from the clock.
LastUpdatedOrNow_AlwaysNow(cfg, now) == now

\* config.lastUpdated?.toISOString() || new Date().toISOString()
LastUpdatedOrNow(cfg, now) ==
    IF Has(cfg, "lastUpdated") THEN toISOString(cfg.lastUpdated) ELSE now

createEnhancedOpenGraph(cfg, window, now) ==
    LET keywordsArray == ensureArray(OrDefault(cfg, "keywords", None))
        branding == getBranding(cfg.branding)
        pathname == getCurrentPathname(StrOrEmpty(cfg, "pathname"), window)
    IN  ("og:title" :> cfg.title)
        @@ ("og:description" :> cfg.description)
        @@ ("og:type" :> "website")
        @@ ("og:url" :> branding.baseUrl \o pathname)
        @@ ("og:image" :>
                branding.baseUrl \o "/og-images/" \o cfg.category \o ".jpg")
        @@ ("og:image:width" :> "1200")
        @@ ("og:image:height" :> "630")
        @@ ("og:image:alt" :> cfg.title \o " - " \o branding.appName)
        @@ ("og:site_name" :> branding.appName)
        @@ ("og:locale" :> "en_US")
        @@ ("article:author" :> branding.baseUrl \o "/about")
        @@ ("article:section" :> cfg.category)
        @@ ("article:tag" :> Join(keywordsArray, ","))
        @@ ("article:published_time" :> "2024-01-01T00:00:00Z")
        @@ ("article:modified_time" :> LastUpdatedOrNow(cfg, now))

\* config.readingTime ? `${config.readingTime} min` : '5 min'
\* (a number is truthy unless it is 0)
ReadingTimeLabel(cfg) ==
    IF Has(cfg, "readingTime") /\ cfg.readingTime # 0
    THEN ToString(cfg.readingTime) \o " min"
    ELSE ToString(DefaultReadingTime) \o " min"

\* A card that leaves the account tags out when there is no handle.
createEnhancedTwitterCard_OmitHandle(cfg) ==
    LET branding == getBranding(cfg.branding)
        account == IF Truthy(branding.twitterHandle)
                   THEN ("twitter:site" :> branding.twitterHandle)
                        @@ ("twitter:creator" :> branding.twitterHandle)
                   ELSE <<>>
    IN  account
        @@ ("twitter:card" :> "summary_large_image")
        @@ ("twitter:title" :> cfg.title)
        @@ ("twitter:description" :> cfg.description)
        @@ ("twitter:image" :>
                branding.baseUrl \o "/twitter-cards/" \o cfg.category \o ".jpg")
        @@ ("twitter:image:alt" :> cfg.title \o " - " \o branding.appName)
        @@ ("twitter:label1" :> "Category")
        @@ ("twitter:data1" :> cfg.category)
        @@ ("twitter:label2" :> "Reading Time")
        @@ ("twitter:data2" :> ReadingTimeLabel(cfg))

createEnhancedTwitterCard(cfg) ==
    LET branding == getBranding(cfg.branding)
    IN  ("twitter:card" :> "summary_large_image")
        @@ ("twitter:site" :> Or(branding.twitterHandle, ""))
        @@ ("twitter:creator" :> Or(branding.twitterHandle, ""))
        @@ ("twitter:title" :> cfg.title)
        @@ ("twitter:description" :> cfg.description)
        @@ ("twitter:image" :>
                branding.baseUrl \o "/twitter-cards/" \o cfg.category \o ".jpg")
        @@ ("twitter:image:alt" :> cfg.title \o " - " \o branding.appName)
        @@ ("twitter:label1" :> "Category")
        @@ ("twitter:data1" :> cfg.category)
        @@ ("twitter:label2" :> "Reading Time")
        @@ ("twitter:data2" :> ReadingTimeLabel(cfg))

createAIMetaTags(cfg, now) ==
    LET keywordsArray == ensureArray(OrDefault(cfg, "keywords", None))
        audienceArray == ensureArray(OrDefault(cfg, "audience", None))
        branding == getBranding(cfg.branding)
    IN  ("ai:content-type" :> cfg.contentType)
        @@ ("ai:complexity" :> cfg.complexity)
        @@ ("ai:category" :> cfg.category)
        @@ ("ai:audience" :> Join(audienceArray, ","))
        @@ ("ai:keywords" :> Join(keywordsArray, ","))
        @@ ("ai:reading-time" :>
                \* toString() of a number is never the empty string
                IF Has(cfg, "readingTime")
                THEN ToString(cfg.readingTime)
                ELSE ToString(DefaultReadingTime))
        @@ ("web3:platform" :> "Email")
        @@ ("web3:networks" :> "ethereum,solana,polygon")
        @@ ("web3:wallets" :> "metamask,phantom,walletconnect")
        @@ ("web3:features" :> "ens,sns,smart-contracts,multi-chain")
        @@ ("llm:context" :> "Web3 email platform documentation and user guides")
        @@ ("llm:domain" :>
                "blockchain,cryptocurrency,decentralized-communication")
        @@ ("llm:use-case" :>
                "email,authentication,wallet-integration,smart-contracts")
        @@ ("semantic:topic" :> cfg.category)
        @@ ("semantic:intent" :> "inform,guide,educate")
        @@ ("semantic:entities" :>
                branding.appName \o ",Web3,blockchain,email,wallet")
        @@ ("content:freshness" :> LastUpdatedOrNow(cfg, now))
        @@ ("content:authority" :> "high")
        @@ ("content:expertise" :> "technical")
        @@ ("content:trustworthiness" :> "verified")

(***************************************************************************)
(* Schema generators (utils/advancedSEO.ts)                                *)
(* A JSON-LD object is a function from its keys to its values; a value is  *)
(* a string, a number, a boolean, a list or another object.                *)
(***************************************************************************)
Typed(type, fields) == ("@type" :> type) @@ fields

\* A top-level object without its '@context'.
Schema_NoContext(type, fields) == ("@type" :> type) @@ fields

Schema(type, fields) ==
    ("@context" :> "https://schema.org") @@ ("@type" :> type) @@ fields

\* encodeURIComponent, for ASCII text: letters, digits and - _ . ! ~ * ' ( )
\* stay, every other character becomes its %XX escape.
EncodeChar(ch) ==
    CASE ch = " " -> "%20"
      [] ch = "&" -> "%26"
      [] ch = "/" -> "%2F"
      [] ch = "?" -> "%3F"
      [] ch = "=" -> "%3D"
      [] ch = "#" -> "%23"
      [] ch = "," -> "%2C"
      [] ch = "+" -> "%2B"
      [] ch = ":" -> "%3A"
      [] OTHER -> ch

RECURSIVE encodeURIComponent(_)
encodeURIComponent(str) ==
    IF str = ""
    THEN ""
    ELSE EncodeChar(CharAt(str, 0)) \o encodeURIComponent(Substring(str, 1, Len(str)))

createWeb3ProductSchema(cfg, now) ==
    LET audienceArray == ensureArray(OrDefault(cfg, "audience", None))
        branding == getBranding(cfg.branding)
    IN  Schema("SoftwareApplication",
          [name |-> branding.appName,
           applicationCategory |-> "CommunicationApplication",
           operatingSystem |-> "Web Browser",
           description |-> cfg.description,
           url |-> branding.baseUrl,
           downloadUrl |-> branding.baseUrl \o "/connect",
           installUrl |-> branding.baseUrl \o "/connect",
           screenshot |-> branding.baseUrl \o "/screenshots/app-preview.jpg",
           aggregateRating |->
               Typed("AggregateRating",
                     [ratingValue |-> "4.8", reviewCount |-> "2500",
                      bestRating |-> "5", worstRating |-> "1"]),
           offers |->
               <<Typed("Offer",
                       [name |-> "Free Web3 Email",
                        description |->
                            "Basic wallet-based email with unlimited sending",
                        price |-> "0",
                        priceCurrency |-> "USD",
                        availability |-> "https://schema.org/InStock"]),
                 Typed("Offer",
                       [name |-> "Premium Web3 Email",
                        description |->
                            "Advanced features with ENS/SNS domains and priority support",
                        price |-> "2.00",
                        priceCurrency |-> "USD",
                        billingIncrement |-> "month",
                        availability |-> "https://schema.org/InStock"])>>,
           featureList |->
               <<"Passwordless wallet authentication",
                 "ENS domain email support (.eth)",
                 "Solana Name Service support (.sol)",
                 "Smart contract email integration",
                 "Multi-chain wallet compatibility",
                 "Cross-chain email addresses",
                 "DAO email delegation",
                 "Encrypted communication",
                 "Web2/Web3 bridge functionality",
                 "Point-based reward system">>,
           applicationSubCategory |-> "Web3 Email Platform",
           audience |->
               Typed("Audience",
                     [audienceType |-> Join(audienceArray, ", "),
                      geographicArea |-> "Worldwide"]),
           creator |->
               Typed("Organization",
                     [name |-> branding.appName, url |-> branding.baseUrl]),
           datePublished |-> "2024-01-01",
           dateModified |-> LastUpdatedOrNow(cfg, now),
           version |-> "1.0",
           softwareRequirements |-> "Web3 Wallet (MetaMask, Phantom, etc.)",
           storageRequirements |-> "5MB",
           memoryRequirements |-> "512MB RAM",
           supportingData |->
               [blockchainNetworks |->
                    <<"Ethereum", "Solana", "Polygon", "Arbitrum", "Optimism">>,
                supportedWallets |->
                    <<"MetaMask", "Phantom", "WalletConnect", "Coinbase Wallet">>,
                smartContractSupport |-> TRUE,
                ensCompatible |-> TRUE,
                snsCompatible |-> TRUE]])

\* config.readingTime ? `PT${config.readingTime}M` : 'PT5M'
TimeRequired(cfg) ==
    IF Has(cfg, "readingTime") /\ cfg.readingTime # 0
    THEN "PT" \o ToString(cfg.readingTime) \o "M"
    ELSE "PT" \o ToString(DefaultReadingTime) \o "M"

createTechnicalArticleSchema(cfg, window, now) ==
    LET keywordsArray == ensureArray(OrDefault(cfg, "keywords", None))
        audienceArray == ensureArray(OrDefault(cfg, "audience", None))
        branding == getBranding(cfg.branding)
        pathname == getCurrentPathname(StrOrEmpty(cfg, "pathname"), window)
    IN  Schema("TechnicalArticle",
          [headline |-> cfg.title,
           description |-> cfg.description,
           author |->
               Typed("Organization",
                     [name |-> branding.appName,
                      url |-> branding.baseUrl,
                      logo |-> Typed("ImageObject",
                                     [url |-> branding.baseUrl \o "/logo.png"])]),
           publisher |->
               Typed("Organization",
                     [name |-> branding.appName,
                      logo |-> Typed("ImageObject",
                                     [url |-> branding.baseUrl \o "/logo.png",
                                      width |-> 600, height |-> 600])]),
           datePublished |-> "2024-01-01T00:00:00Z",
           dateModified |-> LastUpdatedOrNow(cfg, now),
           mainEntityOfPage |->
               Typed("WebPage", ("@id" :> branding.baseUrl \o pathname)),
           image |->
               Typed("ImageObject",
                     [url |-> branding.baseUrl \o "/og-images/technical-guide.jpg",
                      width |-> 1200, height |-> 630]),
           keywords |-> Join(keywordsArray, ", "),
           about |->
               <<Typed("Thing", [name |-> "Web3 Email Platform"]),
                 Typed("Thing", [name |-> "Blockchain Technology"]),
                 Typed("Thing", [name |-> "Decentralized Communication"])>>,
           audience |->
               Typed("Audience",
                     [audienceType |-> Join(audienceArray, ", "),
                      educationalLevel |-> cfg.complexity]),
           educationalLevel |-> cfg.complexity,
           proficiencyLevel |-> cfg.complexity,
           learningResourceType |-> cfg.contentType,
           timeRequired |-> TimeRequired(cfg),
           inLanguage |-> "en",
           isAccessibleForFree |-> TRUE,
           license |-> "https://creativecommons.org/licenses/by/4.0/",
           \* config.relatedTopics || [...]: an array is truthy, even empty
           teaches |->
               OrDefault(cfg, "relatedTopics",
                         <<"Web3 email setup", "Wallet connection process",
                           "Blockchain authentication",
                           "Smart contract integration">>)])

createAIOptimizedSchema(cfg, window) ==
    LET branding == getBranding(cfg.branding)
        pathname == getCurrentPathname(StrOrEmpty(cfg, "pathname"), window)
        SearchLink(topic) ==
            branding.baseUrl \o "/search?q=" \o encodeURIComponent(topic)
    IN  Schema("WebPage",
          [name |-> cfg.title,
           description |-> cfg.description,
           url |-> branding.baseUrl \o pathname,
           primaryImageOfPage |->
               Typed("ImageObject",
                     [url |-> branding.baseUrl \o "/og-images/ai-optimized.jpg"]),
           significantLink |->
               <<branding.baseUrl \o "/document",
                 branding.baseUrl \o "/web3-users",
                 branding.baseUrl \o "/web3-projects",
                 branding.baseUrl \o "/connect">>,
           \* config.relatedTopics?.map(...) || []
           relatedLink |->
               IF Has(cfg, "relatedTopics")
               THEN MapSeq(SearchLink, cfg.relatedTopics)
               ELSE <<>>,
           about |->
               Typed("Thing",
                     [name |-> "Web3 Email Communication",
                      description |->
                          "Blockchain-based email platform using wallet authentication",
                      sameAs |->
                          <<"https://en.wikipedia.org/wiki/Web3",
                            "https://en.wikipedia.org/wiki/Blockchain",
                            "https://en.wikipedia.org/wiki/Cryptocurrency_wallet">>]),
           mentions |->
               <<Typed("SoftwareApplication", [name |-> "MetaMask"]),
                 Typed("SoftwareApplication", [name |-> "Phantom Wallet"]),
                 Typed("Thing", [name |-> "Ethereum Name Service"]),
                 Typed("Thing", [name |-> "Solana Name Service"])>>,
           isPartOf |->
               Typed("WebSite",
                     ("@id" :> branding.baseUrl) @@ [name |-> branding.appName]),
           potentialAction |->
               Typed("InteractAction",
                     [target |->
                          Typed("EntryPoint",
                                [urlTemplate |-> branding.baseUrl \o "/connect",
                                 actionPlatform |->
                                     <<"https://schema.org/DesktopWebPlatform",
                                       "https://schema.org/MobileWebPlatform">>]),
                      name |-> "Connect Web3 Wallet"])])

(***************************************************************************)
(* AI training metadata (utils/aiTrainingMetadata.ts, in unnamed/part_002) *)
(***************************************************************************)
\* The value undefined: what reading a missing property gives.
Undefined == [undefined |-> TRUE]

\* A missing property read as an empty list.
Get_EmptyList(obj, key) == IF Has(obj, key) THEN obj[key] ELSE <<>>

\* obj.key
Get(obj, key) == IF Has(obj, key) THEN obj[key] ELSE Undefined

generateAIMetadata(cfg) ==
    Schema("LearningResource",
      [educationalLevel |-> cfg.difficulty,
       learningResourceType |-> "Technical Documentation",
       \* a number is truthy unless it is 0
       timeRequired |->
           IF Has(cfg, "estimatedTime") /\ cfg.estimatedTime # 0
           THEN "PT" \o ToString(cfg.estimatedTime) \o "M"
           ELSE Undefined,
       teaches |-> Get(cfg, "learningObjectives"),
       requires |-> Get(cfg, "prerequisites"),
       about |->
           Typed("Thing",
                 [name |-> cfg.domain,
                  category |-> cfg.category,
                  subcategory |-> Get(cfg, "subcategory")]),
       keywords |-> cfg.concepts,
       applicationExample |-> Get(cfg, "practicalApplications"),
       isRelatedTo |-> Get(cfg, "relatedConcepts")])

RECURSIVE Flatten(_)
Flatten(lists) ==
    IF lists = <<>> THEN <<>> ELSE Head(lists) \o Flatten(Tail(lists))

Edge(source, target, relationship) ==
    [source |-> source, target |-> target, relationship |-> relationship]

\* concept.relatedTerms?.forEach(...): an edge for each related term that
\* is the term of some concept of the input
RelatedEdges(concepts, concept) ==
    LET Related(related) ==
            When(\E i \in DOMAIN concepts : concepts[i].term = related,
                 Edge(concept.term, related, "related_to"))
    IN  Flatten(MapSeq(Related, OrDefault(concept, "relatedTerms", <<>>)))

\* concept.synonyms?.forEach(...): an edge for each synonym
SynonymEdges(concepts, concept) ==
    LET Synonym(synonym) == Edge(concept.term, synonym, "synonym_of")
    IN  MapSeq(Synonym, OrDefault(concept, "synonyms", <<>>))

\* A graph whose related_to edges are not tested against the input.
generateConceptGraph_AllRelated(concepts) ==
    LET Node(c) == [id |-> c.term, label |-> c.term, category |-> c.category,
                    definition |-> c.definition]
        Related(c) ==
            MapSeq(LAMBDA related : Edge(c.term, related, "related_to"),
                   OrDefault(c, "relatedTerms", <<>>))
        Edges(c) == Related(c) \o SynonymEdges(concepts, c)
    IN  [nodes |-> MapSeq(Node, concepts),
         edges |-> Flatten(MapSeq(Edges, concepts))]

generateConceptGraph(concepts) ==
    LET Node(c) == [id |-> c.term, label |-> c.term, category |-> c.category,
                    definition |-> c.definition]
        Edges(c) == RelatedEdges(concepts, c) \o SynonymEdges(concepts, c)
    IN  [nodes |-> MapSeq(Node, concepts),
         edges |-> Flatten(MapSeq(Edges, concepts))]

(***************************************************************************)
(* Arguments of the generators                                             *)
(***************************************************************************)
\* Largest reading time, in minutes, given in a config.
MaxReadingTime == 2

\* Longest generated keywords or audience string.
MaxListChars == 4

ListAlphabet == {"a", "b", ",", " "}

RECURSIVE ListStringsOfLength(_)
ListStringsOfLength(n) ==
    IF n = 0
    THEN {""}
    ELSE {str \o ch : str \in ListStringsOfLength(n - 1), ch \in ListAlphabet}

ListStrings ==
    UNION {ListStringsOfLength(n) : n \in 0..MaxListChars}
    \cup {"developers, crypto users", "\ta ,\n", "web3,email"}

ListArrays ==
    {<<>>, <<"developers", "crypto users">>, <<"crypto users", "developers">>,
     <<" a ", "", "b,c">>}

\* What a caller may hand over as keywords or audience: a string, a list,
\* or neither.
ListValues ==
    {[string |-> str] : str \in ListStrings}
    \cup {[array |-> list] : list \in ListArrays}
    \cup {[other |-> 0]}

Branding == [appName |-> "TestApp", baseUrl |-> "https://test.com"]

BaseConfig ==
    [title |-> "Test Page", description |-> "A test page", category |-> "guides",
     complexity |-> "intermediate", contentType |-> "guide",
     keywords |-> [array |-> <<"web3", "email">>],
     audience |-> [array |-> <<"developers">>],
     branding |-> Branding]

TagConfigValues(key) ==
    CASE key = "readingTime" -> 0..MaxReadingTime
      [] key = "lastUpdated" -> {[iso |-> "2024-06-15T00:00:00.000Z"]}
      [] key = "relatedTopics" -> {<<"wallets">>}
      [] key = "pathname" -> {"", "/about"}
      [] key = "keywords" -> {[string |-> "web3, email"]}

BrandingValues(key) ==
    CASE key = "twitterHandle" -> {"", "@testapp"}
      [] key = "emailDomain" -> {"test.com"}

Windows == {None, [location |-> [pathname |-> "/current"]]}

Clock == "2026-01-01T12:00:00.000Z"

InitTagMaps ==
    /\ pc = "call"
    /\ fn = ""
    /\ args \in {part @@ [branding |-> brand @@ Branding] @@ BaseConfig :
                    part \in Partial({"readingTime", "lastUpdated", "relatedTopics",
                                      "pathname", "keywords"}, TagConfigValues),
                    brand \in Partial({"twitterHandle", "emailDomain"},
                                      BrandingValues)}
    /\ env \in {[window |-> w, now |-> Clock] : w \in Windows}
    /\ result = None
    /\ Idle

\* One call of ensureArray on its own, or of createAIMetaTags with the same
\* value as the audience.
InitNormalize ==
    /\ pc = "call"
    /\ fn = ""
    /\ args \in {[value |-> v] : v \in ListValues \cup {None}}
                \cup {[audience |-> v] @@ BaseConfig : v \in ListValues}
                \cup {[x \in DOMAIN BaseConfig \ {"audience"} |-> BaseConfig[x]]}
    /\ env = [window |-> None, now |-> Clock]
    /\ result = None
    /\ Idle

Return(name, value) ==
    /\ fn' = name
    /\ result' = value
    /\ pc' = "done"
    /\ UNCHANGED <<args, env, headings, validation, config, element>>

CallEnsureArray ==
    /\ pc = "call"
    /\ Has(args, "value")
    /\ Return("ensureArray", ensureArray(args.value))

CallCreateEnhancedOpenGraph ==
    /\ pc = "call"
    /\ Has(args, "branding")
    /\ Return("createEnhancedOpenGraph",
              createEnhancedOpenGraph(args, env.window, env.now))

CallCreateEnhancedTwitterCard ==
    /\ pc = "call"
    /\ Has(args, "branding")
    /\ Return("createEnhancedTwitterCard", createEnhancedTwitterCard(args))

CallCreateAIMetaTags ==
    /\ pc = "call"
    /\ Has(args, "branding")
    /\ Return("createAIMetaTags", createAIMetaTags(args, env.now))

NextTagMaps ==
    \/ CallCreateEnhancedOpenGraph
    \/ CallCreateEnhancedTwitterCard
    \/ CallCreateAIMetaTags

NextNormalize ==
    \/ CallEnsureArray
    \/ CallCreateAIMetaTags

SpecTagMaps == InitTagMaps /\ [][NextTagMaps]_vars

SpecNormalize == InitNormalize /\ [][NextNormalize]_vars

(***************************************************************************)
(* createEnhancedFAQSchema                                                 *)
(* The repository holds the function twice: utils/advancedSEO.ts takes the *)
(* upvote count from the FAQ item, the copy in unnamed/part_004 draws one  *)
(* from Math.random() for the question and another for its answer.         *)
(* Math.random() is modelled in hundredths: r stands for the value r/100.  *)
(***************************************************************************)
FAQAnswer(faq, appName, now) ==
    ("@type" :> "Answer")
    @@ [text |-> faq.answer,
        dateCreated |-> now,
        author |-> ("@type" :> "Organization") @@ [name |-> appName]]

\* utils/advancedSEO.ts
createEnhancedFAQSchema(faqs, branding, now) ==
    LET brandingConfig == getBranding(branding)
        Question(faq) ==
            ("@type" :> "Question")
            @@ [name |-> faq.question,
                acceptedAnswer |-> FAQAnswer(faq, brandingConfig.appName, now),
                answerCount |-> 1]
            \* ...(faq.upvoteCount != null && { upvoteCount: faq.upvoteCount })
            @@ (IF Has(faq, "upvoteCount")
                THEN [upvoteCount |-> faq.upvoteCount]
                ELSE <<>>)
            @@ [dateCreated |-> "2024-01-01T00:00:00Z",
                category |-> Or(StrOrEmpty(faq, "category"), "General")]
    IN  ("@context" :> "https://schema.org")
        @@ ("@type" :> "FAQPage")
        @@ [mainEntity |-> MapSeq(Question, faqs)]

\* unnamed/part_004; random[i] holds the two values Math.random() returns
\* while item i is mapped, the answer's first.
createEnhancedFAQSchemaPart004(faqs, branding, now, random) ==
    LET brandingConfig == getBranding(branding)
        Question(i) ==
            ("@type" :> "Question")
            @@ [name |-> faqs[i].question,
                acceptedAnswer |->
                    FAQAnswer(faqs[i], brandingConfig.appName, now)
                    \* Math.floor(Math.random() * 50) + 10
                    @@ [upvoteCount |-> ((random[i][1] * 50) \div 100) + 10],
                answerCount |-> 1,
                \* Math.floor(Math.random() * 100) + 20
                upvoteCount |-> ((random[i][2] * 100) \div 100) + 20,
                dateCreated |-> "2024-01-01T00:00:00Z",
                category |-> Or(StrOrEmpty(faqs[i], "category"), "General")]
    IN  ("@context" :> "https://schema.org")
        @@ ("@type" :> "FAQPage")
        @@ [mainEntity |-> [i \in DOMAIN faqs |-> Question(i)]]

\* Longest FAQ list handed to the function.
MaxFaqs == 2

\* Values of Math.random(), in hundredths: the least and the greatest.
RandomValues == {0, 99}

FaqValues(key) ==
    CASE key = "category" -> {"", "Billing"}
      [] key = "upvoteCount" -> {0, 7}

FaqItems ==
    {[question |-> "What is it?", answer |-> "A mail service."] @@ part :
        part \in Partial({"category", "upvoteCount"}, FaqValues)}

InitFAQ ==
    /\ pc = "call"
    /\ fn = ""
    /\ args \in {[faqs |-> list, branding |-> Branding] :
                    list \in SeqsUpTo(FaqItems, MaxFaqs)}
    /\ env = [window |-> None, now |-> Clock]
    /\ result = None
    /\ Idle

CallCreateEnhancedFAQSchema ==
    /\ pc = "call"
    /\ Has(args, "faqs")
    /\ Return("createEnhancedFAQSchema",
              createEnhancedFAQSchema(args.faqs, args.branding, env.now))

CallCreateEnhancedFAQSchemaPart004 ==
    /\ pc = "call"
    /\ Has(args, "faqs")
    /\ \E random \in [DOMAIN args.faqs -> RandomValues \X RandomValues] :
           Return("createEnhancedFAQSchemaPart004",
                  createEnhancedFAQSchemaPart004(args.faqs, args.branding,
                                                 env.now, random))

NextFAQ ==
    \/ CallCreateEnhancedFAQSchema
    \/ CallCreateEnhancedFAQSchemaPart004

SpecFAQ == InitFAQ /\ [][NextFAQ]_vars

(***************************************************************************)
(* AIMeta component                                                        *)
(* The repository holds the component twice: components/AIMeta.tsx renders *)
(* the three base tags, the copy in unnamed/part_000 also the optional     *)
(* ones.  The value is the list of the children handed to Helmet.          *)
(***************************************************************************)
\* String(value) of a boolean
String(bool) == IF bool THEN "true" ELSE "false"

\* A default that is never applied.
TechnicalComplexity_NoDefault(props) == StrOrEmpty(props, "technicalComplexity")

\* technicalComplexity = 'intermediate' in the destructured props
TechnicalComplexity(props) ==
    OrDefault(props, "technicalComplexity", "intermediate")

BaseTags(props) ==
    <<MetaName("ai:content-type", props.contentType),
      MetaName("ai:summary", props.aiSummary),
      MetaName("ai:complexity", TechnicalComplexity(props))>>

\* components/AIMeta.tsx
AIMeta(props) == BaseTags(props)

\* {list && list.length > 0 && <meta name content={list.join(',')} />}
ListTag(props, key, name) ==
    When(Has(props, key) /\ Len(props[key]) > 0,
         MetaName(name, Join(props[key], ",")))

\* {value != null && <meta name content={String(value)} />}
BooleanTag(props, key, name) ==
    When(Has(props, key), MetaName(name, String(props[key])))

\* A rendering that puts the boolean tags after all the list tags.
AIMetaPart000_BooleansLast(props) ==
    BaseTags(props)
    \o ListTag(props, "blockchainNetworks", "ai:blockchain-networks")
    \o ListTag(props, "useCase", "ai:use-case")
    \o ListTag(props, "targetAudience", "ai:audience")
    \o ListTag(props, "integrations", "ai:integrations")
    \o ListTag(props, "features", "ai:features")
    \o ListTag(props, "dataFlow", "ai:data-flow")
    \o ListTag(props, "businessValue", "ai:business-value")
    \o ListTag(props, "securityConsiderations", "ai:security-considerations")
    \o ListTag(props, "learningOutcomes", "ai:learning-outcomes")
    \o BooleanTag(props, "tokenSupported", "ai:token-support")
    \o BooleanTag(props, "walletRequired", "ai:wallet-requirements")

\* unnamed/part_000
AIMetaPart000(props) ==
    BaseTags(props)
    \o ListTag(props, "blockchainNetworks", "ai:blockchain-networks")
    \o BooleanTag(props, "tokenSupported", "ai:token-support")
    \o BooleanTag(props, "walletRequired", "ai:wallet-requirements")
    \o ListTag(props, "useCase", "ai:use-case")
    \o ListTag(props, "targetAudience", "ai:audience")
    \o ListTag(props, "integrations", "ai:integrations")
    \o ListTag(props, "features", "ai:features")
    \o ListTag(props, "dataFlow", "ai:data-flow")
    \o ListTag(props, "businessValue", "ai:business-value")
    \o ListTag(props, "securityConsiderations", "ai:security-considerations")
    \o ListTag(props, "learningOutcomes", "ai:learning-outcomes")

\* Most optional props given in one render, the render with all of them
\* apart.
MaxOptionalProps == 3

ListProps ==
    {"blockchainNetworks", "useCase", "targetAudience", "integrations",
     "features", "dataFlow", "businessValue", "securityConsiderations",
     "learningOutcomes"}

BooleanProps == {"tokenSupported", "walletRequired"}

OptionalProps == ListProps \cup BooleanProps \cup {"technicalComplexity"}

AIMetaValues(key) ==
    CASE key \in ListProps -> {<<>>, <<"Ethereum", "Solana", "Polygon">>}
      [] key \in BooleanProps -> {TRUE, FALSE}
      [] key = "technicalComplexity" -> {"expert"}

RequiredProps == [contentType |-> "documentation", aiSummary |-> "Test summary"]

AIMetaProps ==
    {part @@ RequiredProps :
        part \in UNION {Total(keys, AIMetaValues) :
                          keys \in {k \in SUBSET OptionalProps :
                                      \/ Cardinality(k) <= MaxOptionalProps
                                      \/ k = OptionalProps}}}

InitAIMeta ==
    /\ pc = "call"
    /\ fn = ""
    /\ args \in AIMetaProps
    /\ env = None
    /\ result = None
    /\ Idle

RenderAIMeta ==
    /\ pc = "call"
    /\ Return("AIMeta", AIMeta(args))

RenderAIMetaPart000 ==
    /\ pc = "call"
    /\ Return("AIMetaPart000", AIMetaPart000(args))

NextAIMeta ==
    \/ RenderAIMeta
    \/ RenderAIMetaPart000

SpecAIMeta == InitAIMeta /\ [][NextAIMeta]_vars

(***************************************************************************)
(* Calls of the schema generators                                          *)
(* SpecPath varies what the current path is resolved from: the config's    *)
(* pathname and the window, which is absent on a server and may lack a     *)
(* location.                                                               *)
(***************************************************************************)
PathWindows == Windows \cup {[navigator |-> "node"]}

PathConfigValues(key) ==
    CASE key = "pathname" -> {"", "/about", "/docs/intro"}
      [] key = "lastUpdated" -> {[iso |-> "2024-06-15T00:00:00.000Z"]}
      [] key = "relatedTopics" -> {<<"wallets">>, <<"smart contracts & ENS", "a/b">>}

InitPath ==
    /\ pc = "call"
    /\ fn = ""
    /\ args \in {part @@ BaseConfig :
                    part \in Partial({"pathname", "lastUpdated", "relatedTopics"},
                                     PathConfigValues)}
    /\ env \in {[window |-> w, now |-> Clock] : w \in PathWindows}
    /\ result = None
    /\ Idle

CallCreateWeb3ProductSchema ==
    /\ pc = "call"
    /\ Has(args, "title")
    /\ Return("createWeb3ProductSchema", createWeb3ProductSchema(args, env.now))

CallCreateTechnicalArticleSchema ==
    /\ pc = "call"
    /\ Has(args, "title")
    /\ Return("createTechnicalArticleSchema",
              createTechnicalArticleSchema(args, env.window, env.now))

CallCreateAIOptimizedSchema ==
    /\ pc = "call"
    /\ Has(args, "title")
    /\ Return("createAIOptimizedSchema",
              createAIOptimizedSchema(args, env.window))

NextPath ==
    \/ CallCreateWeb3ProductSchema
    \/ CallCreateTechnicalArticleSchema
    \/ CallCreateAIOptimizedSchema
    \/ CallCreateEnhancedOpenGraph

SpecPath == InitPath /\ [][NextPath]_vars

(***************************************************************************)
(* Two calls with one argument                                             *)
(* A caller calls one generator twice with the same argument; between the  *)
(* calls the clock may advance and the page may navigate.  result keeps,   *)
(* for each call, the environment it ran in and what it returned.          *)
(***************************************************************************)
LaterClock == "2026-01-01T12:00:00.001Z"

\* The clock never goes back.
ClocksFrom(now) == IF now = Clock THEN {Clock, LaterClock} ELSE {LaterClock}

ConfigGenerators ==
    {"createWeb3ProductSchema", "createTechnicalArticleSchema",
     "createAIOptimizedSchema", "createEnhancedOpenGraph",
     "createEnhancedTwitterCard", "createAIMetaTags"}

FAQGenerators == {"createEnhancedFAQSchema", "createEnhancedFAQSchemaPart004"}

\* The generators that accept the argument of this behaviour.
Callable == IF Has(args, "faqs") THEN FAQGenerators ELSE ConfigGenerators

\* One call of the named generator; random holds what Math.random() returns
\* during the call.
Generate(name, arg, e, random) ==
    CASE name = "createWeb3ProductSchema" -> createWeb3ProductSchema(arg, e.now)
      [] name = "createTechnicalArticleSchema" ->
             createTechnicalArticleSchema(arg, e.window, e.now)
      [] name = "createAIOptimizedSchema" -> createAIOptimizedSchema(arg, e.window)
      [] name = "createEnhancedOpenGraph" ->
             createEnhancedOpenGraph(arg, e.window, e.now)
      [] name = "createEnhancedTwitterCard" -> createEnhancedTwitterCard(arg)
      [] name = "createAIMetaTags" -> createAIMetaTags(arg, e.now)
      [] name = "createEnhancedFAQSchema" ->
             createEnhancedFAQSchema(arg.faqs, arg.branding, e.now)
      [] name = "createEnhancedFAQSchemaPart004" ->
             createEnhancedFAQSchemaPart004(arg.faqs, arg.branding, e.now, random)

\* The draws of Math.random() one call can see.
Draws(name) ==
    IF name = "createEnhancedFAQSchemaPart004"
    THEN [DOMAIN args.faqs -> RandomValues \X RandomValues]
    ELSE {<<>>}

TwiceConfigValues(key) ==
    CASE key = "readingTime" -> 0..MaxReadingTime
      [] key = "lastUpdated" -> {[iso |-> "2024-06-15T00:00:00.000Z"]}
      [] key = "relatedTopics" -> {<<"wallets">>}
      [] key = "pathname" -> {"", "/about"}

InitTwice ==
    /\ pc = "call"
    /\ fn = ""
    /\ args \in {part @@ BaseConfig :
                    part \in Partial({"readingTime", "lastUpdated", "relatedTopics",
                                      "pathname"}, TwiceConfigValues)}
    /\ env \in {[window |-> w, now |-> Clock] : w \in Windows}
    /\ result = <<>>
    /\ Idle

FirstCall ==
    /\ pc = "call"
    /\ \E name \in Callable :
           \E random \in Draws(name) :
               /\ fn' = name
               /\ result' =
                      <<[at |-> env, returned |-> Generate(name, args, env, random)]>>
    /\ \E w \in Windows, now \in ClocksFrom(env.now) :
           env' = [window |-> w, now |-> now]
    /\ pc' = "again"
    /\ UNCHANGED <<args, headings, validation, config, element>>

SecondCall ==
    /\ pc = "again"
    /\ \E random \in Draws(fn) :
           result' = Append(result,
                            [at |-> env, returned |-> Generate(fn, args, env, random)])
    /\ pc' = "done"
    /\ UNCHANGED <<fn, args, env, headings, validation, config, element>>

NextTwice ==
    \/ FirstCall
    \/ SecondCall

SpecTwice == InitTwice /\ [][NextTwice]_vars

\* Two calls of createEnhancedFAQSchema with one FAQ list.
InitFAQTwice ==
    /\ pc = "call"
    /\ fn = ""
    /\ args \in {[faqs |-> list, branding |-> Branding] :
                    list \in SeqsUpTo({item \in FaqItems : ~Has(item, "category")},
                                      MaxFaqs)}
    /\ env = [window |-> None, now |-> Clock]
    /\ result = <<>>
    /\ Idle

SpecFAQTwice == InitFAQTwice /\ [][NextTwice]_vars

(***************************************************************************)
(* Calls of the structured-data generators                                 *)
(* SpecSchemas calls each generator that returns a structured-data object  *)
(* once, with optional fields given or omitted.                            *)
(***************************************************************************)
SchemaConfigValues(key) ==
    CASE key = "readingTime" -> 0..MaxReadingTime
      [] key = "lastUpdated" -> {[iso |-> "2024-06-15T00:00:00.000Z"]}
      [] key = "relatedTopics" -> {<<>>, <<"smart contracts & ENS">>}
      [] key = "pathname" -> {"/about"}
      [] key = "audience" -> {[string |-> "developers, crypto users"]}

TrainingConfigValues(key) ==
    CASE key = "subcategory" -> {"Email"}
      [] key = "prerequisites" -> {<<"Basic blockchain knowledge">>}
      [] key = "learningObjectives" -> {<<>>, <<"Understand Web3 email">>}
      [] key = "estimatedTime" -> {0, 30}
      [] key = "practicalApplications" -> {<<"DAO communications">>}
      [] key = "relatedConcepts" -> {<<"ENS", "SNS">>}

TrainingConfigs ==
    {part @@ [domain |-> "Web3 Email", category |-> "Communication",
              concepts |-> <<"wallet authentication", "ENS">>,
              difficulty |-> "intermediate"] :
        part \in Partial({"subcategory", "prerequisites", "learningObjectives",
                          "estimatedTime", "practicalApplications",
                          "relatedConcepts"}, TrainingConfigValues)}

InitSchemas ==
    /\ pc = "call"
    /\ fn = ""
    /\ args \in {part @@ BaseConfig :
                    part \in Partial({"readingTime", "lastUpdated", "relatedTopics",
                                      "pathname", "audience"}, SchemaConfigValues)}
                \cup {[faqs |-> list, branding |-> Branding] :
                        list \in SeqsUpTo(FaqItems, MaxFaqs)}
                \cup TrainingConfigs
    /\ env \in {[window |-> w, now |-> Clock] : w \in Windows}
    /\ result = None
    /\ Idle

CallGenerateAIMetadata ==
    /\ pc = "call"
    /\ Has(args, "domain")
    /\ Return("generateAIMetadata", generateAIMetadata(args))

NextSchemas ==
    \/ CallCreateWeb3ProductSchema
    \/ CallCreateTechnicalArticleSchema
    \/ CallCreateAIOptimizedSchema
    \/ CallCreateEnhancedFAQSchema
    \/ CallCreateEnhancedFAQSchemaPart004
    \/ CallGenerateAIMetadata

SpecSchemas == InitSchemas /\ [][NextSchemas]_vars

(***************************************************************************)
(* Calls of generateConceptGraph                                           *)
(* A related term or a synonym may or may not be the term of a concept of  *)
(* the list, and two concepts of the list may share a term.                *)
(***************************************************************************)
MaxConcepts == 2

ConceptValues(key) ==
    CASE key = "relatedTerms" -> {<<>>, <<"SNS">>, <<"DAO">>, <<"SNS", "DAO">>}
      [] key = "synonyms" -> {<<"Ethereum Name Service">>, <<"SNS">>}

Concepts ==
    {part @@ [term |-> term, definition |-> "A naming system",
              category |-> "Identity"] :
        term \in {"ENS", "SNS"},
        part \in Partial({"relatedTerms", "synonyms"}, ConceptValues)}

InitConceptGraph ==
    /\ pc = "call"
    /\ fn = ""
    /\ args \in SeqsUpTo(Concepts, MaxConcepts)
    /\ env = [window |-> None, now |-> Clock]
    /\ result = None
    /\ Idle

CallGenerateConceptGraph ==
    /\ pc = "call"
    /\ Return("generateConceptGraph", generateConceptGraph(args))

NextConceptGraph == CallGenerateConceptGraph

SpecConceptGraph == InitConceptGraph /\ [][NextConceptGraph]_vars

(***************************************************************************)
(* generateAdvancedSEO                                                     *)
(* The object literal is evaluated in source order; reads holds what       *)
(* new Date() returns in the six calls that reach it, in that order.  The  *)
(* page location does not change during the one synchronous call.          *)
(***************************************************************************)
generateAdvancedSEO(cfg, window, reads) ==
    [structuredData |->
         [product |-> createWeb3ProductSchema(cfg, reads[1]),
          article |-> createTechnicalArticleSchema(cfg, window, reads[2]),
          aiOptimized |-> createAIOptimizedSchema(cfg, window)],
     openGraph |-> createEnhancedOpenGraph(cfg, window, reads[3]),
     twitterCard |-> createEnhancedTwitterCard(cfg),
     aiMetaTags |-> createAIMetaTags(cfg, reads[4]),
     jsonLD |-> <<createWeb3ProductSchema(cfg, reads[5]),
                  createTechnicalArticleSchema(cfg, window, reads[6]),
                  createAIOptimizedSchema(cfg, window)>>]

ClockReads == 6

\* The clock never goes back between two reads.
ClockReadings ==
    {[i \in 1..ClockReads |-> IF i < later THEN Clock ELSE LaterClock] :
        later \in 1..(ClockReads + 1)}

AdvancedConfigValues(key) ==
    CASE key = "readingTime" -> 0..MaxReadingTime
      [] key = "lastUpdated" -> {[iso |-> "2024-06-15T00:00:00.000Z"]}
      [] key = "pathname" -> {"", "/about"}

InitAdvancedSEO ==
    /\ pc = "call"
    /\ fn = ""
    /\ args \in {part @@ BaseConfig :
                    part \in Partial({"readingTime", "lastUpdated", "pathname"},
                                     AdvancedConfigValues)}
    /\ env \in {[window |-> w, now |-> Clock] : w \in Windows}
    /\ result = None
    /\ Idle

CallGenerateAdvancedSEO ==
    /\ pc = "call"
    /\ \E reads \in ClockReadings :
           /\ reads[1] = env.now
           /\ Return("generateAdvancedSEO",
                     generateAdvancedSEO(args, env.window, reads))

NextAdvancedSEO == CallGenerateAdvancedSEO

SpecAdvancedSEO == InitAdvancedSEO /\ [][NextAdvancedSEO]_vars

(***************************************************************************)
(* Properties of the SEO component                                         *)
(***************************************************************************)
Rendered == pc = "done" /\ fn = "SEO"

\* The contents of the rendered elements of one kind, in document order:
\* meta tags by name, meta tags by property, links by rel.
Select(seq, Test(_)) == SelectSeq(seq, Test)

ByName(name) ==
    LET Test(el) == el.type = "meta" /\ "name" \in DOMAIN el /\ el.name = name
    IN  MapSeq(LAMBDA el : el.content, Select(result, Test))

ByProperty(property) ==
    LET Test(el) ==
            el.type = "meta" /\ "property" \in DOMAIN el /\ el.property = property
    IN  MapSeq(LAMBDA el : el.content, Select(result, Test))

ByRel(rel) ==
    LET Test(el) == el.type = "link" /\ el.rel = rel
    IN  MapSeq(LAMBDA el : el.href, Select(result, Test))

TitleElements ==
    LET Test(el) == el.type = "title"
    IN  MapSeq(LAMBDA el : el.children, Select(result, Test))

Payloads ==
    LET Test(el) == el.type = "script"
    IN  MapSeq(LAMBDA el : el.children, Select(result, Test))

\* The four places the composed title goes to all carry exactly this value.
TitleEverywhere(value) ==
    /\ TitleElements = <<value>>
    /\ ByName("title") = <<value>>
    /\ ByProperty("og:title") = <<value>>
    /\ ByName("twitter:title") = <<value>>

\* C11 as stated: whenever a title is given the composed title is
\* '{title} | {appName}', otherwise it is appName alone, and the title
\* element, the 'title' meta tag, og:title and twitter:title all carry it.
\* An empty title is a given title, and the component answers appName alone.
ClaimC11 ==
    Rendered =>
        TitleEverywhere(IF Has(args, "title")
                        THEN args.title \o " | " \o args.config.appName
                        ELSE args.config.appName)

\* C11, amended: a non-empty title is composed as '{title} | {appName}'; an
\* omitted or empty title gives appName alone; the title element, the 'title'
\* meta tag, og:title and twitter:title all carry the composed value.
TheoremC11 ==
    Rendered =>
        TitleEverywhere(IF Has(args, "title") /\ args.title # ""
                        THEN args.title \o " | " \o args.config.appName
                        ELSE args.config.appName)

WitnessC11 ==
    /\ Rendered
    /\ Has(args, "title") /\ args.title = "Dashboard"
    /\ args.config.appName = "Acme Mail"
    /\ TitleElements = <<"Dashboard | Acme Mail">>
    /\ ByProperty("og:title") = <<"Dashboard | Acme Mail">>

\* The first non-empty candidate of a fallback chain, '' when there is none.
RECURSIVE FirstNonEmpty(_)
FirstNonEmpty(candidates) ==
    IF candidates = <<>>
    THEN ""
    ELSE IF Head(candidates) # ""
    THEN Head(candidates)
    ELSE FirstNonEmpty(Tail(candidates))

Candidate(obj, key) == IF key \in DOMAIN obj THEN <<obj[key]>> ELSE <<>>

\* A tag set is emitted once each with the resolved value, or not at all
\* when nothing resolved.
EmittedOrOmitted(tags, value) ==
    \A tag \in tags : tag = IF value = "" THEN <<>> ELSE <<value>>

\* C12: description resolves to description, else config.defaultDescription;
\* image to ogImage, else config.defaultOgImage, else baseUrl/og-image.png;
\* Twitter site to twitterSite, else config.defaultTwitterSite.  A value that
\* does not resolve omits its tags (none is emitted with empty content),
\* while og:image and twitter:image are always emitted.
TheoremC12 ==
    Rendered =>
        LET description ==
                FirstNonEmpty(Candidate(args, "description")
                              \o Candidate(args.config, "defaultDescription"))
            image ==
                FirstNonEmpty(Candidate(args, "ogImage")
                              \o Candidate(args.config, "defaultOgImage")
                              \o <<args.config.baseUrl \o "/og-image.png">>)
            site ==
                FirstNonEmpty(Candidate(args, "twitterSite")
                              \o Candidate(args.config, "defaultTwitterSite"))
        IN  /\ EmittedOrOmitted({ByName("description"),
                                 ByProperty("og:description"),
                                 ByName("twitter:description")}, description)
            /\ EmittedOrOmitted({ByName("twitter:site")}, site)
            /\ image # ""
            /\ ByProperty("og:image") = <<image>>
            /\ ByName("twitter:image") = <<image>>
            /\ \A i \in DOMAIN result :
                   "content" \in DOMAIN result[i] => result[i].content # ""

WitnessC12 ==
    /\ Rendered
    /\ ~Has(args, "description") /\ ~Has(args.config, "defaultDescription")
    /\ Has(args, "twitterSite") /\ args.twitterSite = ""
    /\ ~Has(args.config, "defaultTwitterSite")
    /\ ~Has(args, "ogImage") /\ ~Has(args.config, "defaultOgImage")
    /\ ByName("description") = <<>>
    /\ ByProperty("og:description") = <<>>
    /\ ByName("twitter:description") = <<>>
    /\ ByName("twitter:site") = <<>>
    /\ ByProperty("og:image") = <<args.config.baseUrl \o "/og-image.png">>

CanonicalOutputs == {ByRel("canonical"), ByProperty("og:url"), ByName("twitter:url")}

\* C13: the canonical link, og:url and twitter:url are emitted only when a
\* canonical path is supplied, each once with baseUrl followed by the path
\* exactly as given; without a path none of the three is emitted.
TheoremC13 ==
    Rendered =>
        /\ \A out \in CanonicalOutputs :
               out # <<>> =>
                   /\ Has(args, "canonical")
                   /\ out = <<args.config.baseUrl \o args.canonical>>
        /\ Has(args, "canonical") /\ args.canonical # "" =>
               \A out \in CanonicalOutputs : out # <<>>
        /\ ~Has(args, "canonical") =>
               \A out \in CanonicalOutputs : out = <<>>

WitnessC13 ==
    /\ Rendered
    /\ Has(args, "canonical") /\ args.canonical = "//docs/"
    /\ args.config.baseUrl = "https://myapp.com/"
    /\ CanonicalOutputs = {<<"https://myapp.com///docs/">>}

\* C15: a single structured-data object gives exactly one JSON-LD payload,
\* a list one payload per element in the list's order, an absent value no
\* payload; each payload serializes one element only.
TheoremC15 ==
    Rendered =>
        LET data == IF Has(args, "structuredData")
                    THEN args.structuredData
                    ELSE None
        IN  /\ data = None => Payloads = <<>>
            /\ "object" \in DOMAIN data =>
                   Payloads = <<JSONStringify(data.object)>>
            /\ "array" \in DOMAIN data =>
                   /\ Len(Payloads) = Len(data.array)
                   /\ \A i \in DOMAIN data.array :
                          Payloads[i] = JSONStringify(data.array[i])

WitnessC15 ==
    /\ Rendered
    /\ Has(args, "structuredData")
    /\ IsArray(args.structuredData)
    /\ args.structuredData.array = <<OrgObject, PageObject>>
    /\ Len(Payloads) = 2
    /\ Payloads[1] = JSONStringify(OrgObject)
    /\ Payloads[2] # Payloads[1]

(***************************************************************************)
(* Properties of the advancedSEO generators                                *)
(***************************************************************************)
Returned(name) == pc = "done" /\ fn = name

\* The segments of a comma-separated string, by position: a segment lies
\* between two neighbouring cuts (a comma, or either end of the string), and
\* what is kept of it runs from its first to its last non-blank character.
Cuts(str) == {0, Len(str) + 1} \cup {i \in 1..Len(str) : CharAt(str, i - 1) = ","}

NextCut(str, cut) ==
    CHOOSE c \in Cuts(str) : c > cut /\ \A d \in Cuts(str) : d > cut => c <= d

Inked(str, cut) ==
    {i \in (cut + 1)..(NextCut(str, cut) - 1) :
        CharAt(str, i - 1) \notin {" ", "\t", "\n"}}

KeptCuts(str) == {cut \in Cuts(str) \ {Len(str) + 1} : Inked(str, cut) # {}}

Least(set) == CHOOSE x \in set : \A y \in set : x <= y

Greatest(set) == CHOOSE x \in set : \A y \in set : x >= y

Segments(str) ==
    [k \in 1..Cardinality(KeptCuts(str)) |->
        LET cut == CHOOSE c \in KeptCuts(str) :
                       Cardinality({d \in KeptCuts(str) : d <= c}) = k
        IN  SubSeq(str, Least(Inked(str, cut)), Greatest(Inked(str, cut)))]

Normalized(value) ==
    IF "array" \in DOMAIN value
    THEN value.array
    ELSE IF "string" \in DOMAIN value
    THEN Segments(value.string)
    ELSE <<>>

\* C14: a list is used as it is; a string is split on commas, each segment
\* trimmed and empty segments dropped; anything else gives the empty list;
\* createAIMetaTags joins the normalized audience with commas, so that
\* 'developers, crypto users' gives 'developers,crypto users' as the list
\* ['developers', 'crypto users'] does.
TheoremC14 ==
    /\ Returned("ensureArray") => result = Normalized(args.value)
    /\ Returned("createAIMetaTags") =>
           /\ result["ai:audience"] =
                  Join(Normalized(OrDefault(args, "audience", None)), ",")
           /\ OrDefault(args, "audience", None)
                  \in {[string |-> "developers, crypto users"],
                       [array |-> <<"developers", "crypto users">>]}
              => result["ai:audience"] = "developers,crypto users"

WitnessC14 ==
    /\ Returned("createAIMetaTags")
    /\ args.audience = [string |-> "developers, crypto users"]
    /\ result["ai:audience"] = "developers,crypto users"

FAQReturned ==
    pc = "done" /\ fn \in {"createEnhancedFAQSchema", "createEnhancedFAQSchemaPart004"}

\* What the claim says of one Question: the item's category or 'General',
\* an upvoteCount exactly when the item has one and with its value, none on
\* the accepted answer.
QuestionAsClaimed(question, faq) ==
    /\ question.name = faq.question
    /\ question.category =
           IF Has(faq, "category") /\ faq.category # ""
           THEN faq.category
           ELSE "General"
    /\ Has(question, "upvoteCount") <=> Has(faq, "upvoteCount")
    /\ Has(faq, "upvoteCount") => question.upvoteCount = faq.upvoteCount
    /\ ~Has(question.acceptedAnswer, "upvoteCount")

QuestionsAsClaimed ==
    /\ Len(result.mainEntity) = Len(args.faqs)
    /\ \A i \in DOMAIN args.faqs :
           QuestionAsClaimed(result.mainEntity[i], args.faqs[i])

\* C16 as stated: one Question per FAQ item, in input order, with the item's
\* category or 'General'; an upvoteCount key exactly when the item supplied
\* one, with the supplied value (0 included); no upvote count is synthesized
\* on the Question or on its acceptedAnswer.  The copy of the function in
\* unnamed/part_004 draws both counts from Math.random().
ClaimC16 == FAQReturned => QuestionsAsClaimed

\* The copy in utils/advancedSEO.ts, taken alone, does what C16 says.
AdvancedSEOCopyAsClaimed ==
    Returned("createEnhancedFAQSchema") => QuestionsAsClaimed

OpenGraphKeys ==
    {"og:title", "og:description", "og:type", "og:url", "og:image",
     "og:image:width", "og:image:height", "og:image:alt", "og:site_name",
     "og:locale", "article:author", "article:section", "article:tag",
     "article:published_time", "article:modified_time"}

TwitterCardKeys ==
    {"twitter:card", "twitter:site", "twitter:creator", "twitter:title",
     "twitter:description", "twitter:image", "twitter:image:alt",
     "twitter:label1", "twitter:data1", "twitter:label2", "twitter:data2"}

AIMetaTagKeys ==
    {"ai:content-type", "ai:complexity", "ai:category", "ai:audience",
     "ai:keywords", "ai:reading-time", "web3:platform", "web3:networks",
     "web3:wallets", "web3:features", "llm:context", "llm:domain",
     "llm:use-case", "semantic:topic", "semantic:intent", "semantic:entities",
     "content:freshness", "content:authority", "content:expertise",
     "content:trustworthiness"}

StringMapOver(keys, size) ==
    /\ DOMAIN result = keys
    /\ Cardinality(DOMAIN result) = size
    /\ \A key \in DOMAIN result : result[key] \in STRING

\* C17: each tag-map generator returns its one fixed key set (15, 11 and 20
\* keys) whatever optional fields are absent, every value is a string, and
\* without a twitterHandle 'twitter:site' and 'twitter:creator' are present
\* and empty.
TheoremC17 ==
    /\ Returned("createEnhancedOpenGraph") => StringMapOver(OpenGraphKeys, 15)
    /\ Returned("createEnhancedTwitterCard") =>
           /\ StringMapOver(TwitterCardKeys, 11)
           /\ ~Has(args.branding, "twitterHandle") =>
                  result["twitter:site"] = "" /\ result["twitter:creator"] = ""
    /\ Returned("createAIMetaTags") => StringMapOver(AIMetaTagKeys, 20)

WitnessC17 ==
    /\ Returned("createEnhancedTwitterCard")
    /\ ~Has(args.branding, "twitterHandle")
    /\ DOMAIN args \cap {"readingTime", "lastUpdated", "relatedTopics", "pathname"}
           = {}
    /\ Cardinality(DOMAIN result) = 11
    /\ result["twitter:site"] = ""
    /\ result["twitter:creator"] = ""

\* C18 as stated: 'twitter:data2' is '5 min' when readingTime is omitted and
\* '{readingTime} min' for every readingTime that is supplied.  A supplied
\* reading time of 0 is answered with '5 min'.
ClaimC18 ==
    Returned("createEnhancedTwitterCard") =>
        result["twitter:data2"] =
            IF Has(args, "readingTime")
            THEN ToString(args.readingTime) \o " min"
            ELSE "5 min"

(***************************************************************************)
(* Properties of the AIMeta component                                      *)
(***************************************************************************)
AIMetaRendered == pc = "done" /\ fn \in {"AIMeta", "AIMetaPart000"}

\* C19: ai:content-type, ai:summary and ai:complexity are emitted for every
\* combination of props; ai:complexity carries the supplied
\* technicalComplexity, or 'intermediate' when it is omitted.
TheoremC19 ==
    AIMetaRendered =>
        /\ ByName("ai:content-type") = <<args.contentType>>
        /\ ByName("ai:summary") = <<args.aiSummary>>
        /\ ByName("ai:complexity") =
               IF "technicalComplexity" \in DOMAIN args
               THEN <<args.technicalComplexity>>
               ELSE <<"intermediate">>

WitnessC19 ==
    /\ AIMetaRendered
    /\ "technicalComplexity" \notin DOMAIN args
    /\ DOMAIN args \cap ListProps # {}
    /\ ByName("ai:complexity") = <<"intermediate">>
    /\ ByName("ai:summary") = <<"Test summary">>

TagOf(key) ==
    CASE key = "blockchainNetworks" -> "ai:blockchain-networks"
      [] key = "tokenSupported" -> "ai:token-support"
      [] key = "walletRequired" -> "ai:wallet-requirements"
      [] key = "useCase" -> "ai:use-case"
      [] key = "targetAudience" -> "ai:audience"
      [] key = "integrations" -> "ai:integrations"
      [] key = "features" -> "ai:features"
      [] key = "dataFlow" -> "ai:data-flow"
      [] key = "businessValue" -> "ai:business-value"
      [] key = "securityConsiderations" -> "ai:security-considerations"
      [] key = "learningOutcomes" -> "ai:learning-outcomes"

OptionalTagsAsClaimed ==
    /\ \A key \in ListProps :
           ByName(TagOf(key)) =
               IF key \in DOMAIN args /\ args[key] # <<>>
               THEN <<Join(args[key], ",")>>
               ELSE <<>>
    /\ \A key \in BooleanProps :
           ByName(TagOf(key)) =
               IF key \notin DOMAIN args
               THEN <<>>
               ELSE IF args[key] THEN <<"true">> ELSE <<"false">>
    /\ DOMAIN args = {"contentType", "aiSummary"} => Len(result) = 3

\* C20 as stated: a list-typed optional field emits its tag exactly when the
\* list is present and non-empty, joined by single commas; a boolean field
\* exactly when it is present, as 'true' or 'false'; with only the required
\* props exactly three tags are emitted.  components/AIMeta.tsx emits none
\* of the optional tags.
ClaimC20 == AIMetaRendered => OptionalTagsAsClaimed

\* The copy in unnamed/part_000, taken alone, does what C20 says.
Part000CopyAsClaimed == (pc = "done" /\ fn = "AIMetaPart000") => OptionalTagsAsClaimed

\* The tags in the order the component writes them.
EmissionOrder ==
    <<"ai:content-type", "ai:summary", "ai:complexity",
      "ai:blockchain-networks", "ai:token-support", "ai:wallet-requirements",
      "ai:use-case", "ai:audience", "ai:integrations", "ai:features",
      "ai:data-flow", "ai:business-value", "ai:security-considerations",
      "ai:learning-outcomes">>

\* The tags in the order AIMetaProps declares their fields: contentType,
\* blockchainNetworks, tokenSupported, walletRequired, aiSummary,
\* technicalComplexity, useCase, ...
DeclarationOrder ==
    <<"ai:content-type", "ai:blockchain-networks", "ai:token-support",
      "ai:wallet-requirements", "ai:summary", "ai:complexity",
      "ai:use-case", "ai:audience", "ai:integrations", "ai:features",
      "ai:data-flow", "ai:business-value", "ai:security-considerations",
      "ai:learning-outcomes">>

Position(order, name) == CHOOSE i \in DOMAIN order : order[i] = name

\* The rendered tags all belong to an order and follow it.
Follows(order) ==
    /\ \A i \in DOMAIN result : \E k \in DOMAIN order : order[k] = result[i].name
    /\ \A i, j \in DOMAIN result :
           i < j => Position(order, result[i].name) < Position(order, result[j].name)

\* C21 as stated: the tags come in one relative order on every call, and
\* that order is the order in which AIMetaProps declares the fields.  The
\* fields blockchainNetworks, tokenSupported and walletRequired are declared
\* before aiSummary, and their tags are written after ai:complexity.
ClaimC21 == AIMetaRendered => Follows(DeclarationOrder)

\* C21, amended: the tags come in one relative order on every call, whatever
\* subset of fields is present: ai:content-type, ai:summary, ai:complexity
\* first, then the optional tags in the declaration order of their fields.
TheoremC21 == AIMetaRendered => Follows(EmissionOrder)

WitnessC21 ==
    /\ pc = "done" /\ fn = "AIMetaPart000"
    /\ Len(result) = 6
    /\ result[2].name = "ai:summary"
    /\ result[4].name = "ai:blockchain-networks"
    /\ result[5].name = "ai:wallet-requirements"
    /\ result[6].name = "ai:learning-outcomes"

(***************************************************************************)
(* Properties of the current-path resolution                               *)
(***************************************************************************)
\* The page location a call can read, '' when there is none.
AmbientPath ==
    IF "location" \in DOMAIN env.window THEN env.window.location.pathname ELSE ""

\* The URL outputs of the last call: og:url, the WebPage url, the
\* mainEntityOfPage '@id'.
UrlOutputs ==
    CASE fn = "createEnhancedOpenGraph" -> {result["og:url"]}
      [] fn = "createAIOptimizedSchema" -> {result.url}
      [] fn = "createTechnicalArticleSchema" -> {result.mainEntityOfPage["@id"]}
      [] OTHER -> {}

PathCalled ==
    /\ pc = "done"
    /\ fn \in {"createEnhancedOpenGraph", "createAIOptimizedSchema",
               "createTechnicalArticleSchema", "createWeb3ProductSchema"}

\* Every call returned a structured-data object or a tag map.
NoneFailed == "og:title" \in DOMAIN result \/ "@context" \in DOMAIN result

\* C22 as stated: a supplied pathname is always used, else the page
\* location's path when there is a browsing context, else '/'; without a
\* browsing context no generator fails; the URL outputs are baseUrl followed
\* by the resolved path.  A supplied empty pathname is not used.
ClaimC22 ==
    PathCalled =>
        /\ NoneFailed
        /\ UrlOutputs \subseteq
               {args.branding.baseUrl \o
                    (IF Has(args, "pathname")
                     THEN args.pathname
                     ELSE IF AmbientPath # "" THEN AmbientPath ELSE "/")}

\* C22, amended: a supplied non-empty pathname is used; an omitted or empty
\* one gives the page location's path when there is a browsing context with
\* a location, else '/'; without a browsing context no generator fails; the
\* URL outputs are baseUrl followed by the resolved path.
TheoremC22 ==
    PathCalled =>
        /\ NoneFailed
        /\ UrlOutputs \subseteq
               {args.branding.baseUrl \o
                    (IF Has(args, "pathname") /\ args.pathname # ""
                     THEN args.pathname
                     ELSE IF AmbientPath # "" THEN AmbientPath ELSE "/")}

WitnessC22 ==
    /\ pc = "done"
    /\ fn = "createTechnicalArticleSchema"
    /\ ~Has(args, "pathname")
    /\ env.window = None
    /\ result.mainEntityOfPage["@id"] = "https://test.com/"

(***************************************************************************)
(* Properties of repeated calls                                            *)
(***************************************************************************)
CalledTwice == pc = "done" /\ Len(result) = 2

SameOutputs == result[1].returned = result[2].returned

\* C23 as stated: for every config that supplies both lastUpdated and
\* pathname, two calls of one of the six config generators return equal
\* outputs whatever the clock and the page location are at each call.  A
\* supplied empty pathname leaves the page location in the output.
ClaimC23 ==
    (CalledTwice /\ fn \in ConfigGenerators
        /\ Has(args, "lastUpdated") /\ Has(args, "pathname"))
    => SameOutputs

\* C23, amended: for every config that supplies lastUpdated and a non-empty
\* pathname, two calls of createWeb3ProductSchema,
\* createTechnicalArticleSchema, createAIOptimizedSchema,
\* createEnhancedOpenGraph, createEnhancedTwitterCard or createAIMetaTags
\* return equal outputs whatever the clock and the page location are at each
\* call; the clock is read only when lastUpdated is absent.
TheoremC23 ==
    (CalledTwice /\ fn \in ConfigGenerators
        /\ Has(args, "lastUpdated") /\ Has(args, "pathname") /\ args.pathname # "")
    => SameOutputs

WitnessC23 ==
    /\ CalledTwice
    /\ fn = "createEnhancedOpenGraph"
    /\ Has(args, "lastUpdated") /\ Has(args, "pathname") /\ args.pathname = "/about"
    /\ result[1].at.now # result[2].at.now
    /\ result[1].at.window # result[2].at.window
    /\ SameOutputs
    /\ result[2].returned["article:modified_time"] = args.lastUpdated.iso

\* C24 as stated: two calls of createEnhancedFAQSchema with equal FAQ lists
\* and equal branding return equal objects, whatever the clock and the
\* random source are at each call.  Each answer's dateCreated is the time of
\* the call, and the copy in unnamed/part_004 draws the upvote counts.
ClaimC24 == (CalledTwice /\ fn \in FAQGenerators) => SameOutputs

\* The copy in utils/advancedSEO.ts depends on nothing but its arguments and
\* the clock: two calls at one time return equal objects.
AdvancedSEOCopyClockOnly ==
    (CalledTwice /\ fn = "createEnhancedFAQSchema"
        /\ result[1].at.now = result[2].at.now)
    => SameOutputs


(***************************************************************************)
(* Properties of the structured-data generators                            *)
(***************************************************************************)
TopLevelType ==
    CASE fn = "createWeb3ProductSchema" -> "SoftwareApplication"
      [] fn = "createTechnicalArticleSchema" -> "TechnicalArticle"
      [] fn \in FAQGenerators -> "FAQPage"
      [] fn = "createAIOptimizedSchema" -> "WebPage"

SchemaReturned ==
    /\ pc = "done"
    /\ fn \in {"createWeb3ProductSchema", "createTechnicalArticleSchema",
               "createAIOptimizedSchema"} \cup FAQGenerators

\* C25: every object returned by a schema generator carries '@context' =
\* 'https://schema.org' and '@type', for every input, and the '@type' is
\* 'SoftwareApplication', 'TechnicalArticle', 'FAQPage' or 'WebPage'
\* according to the generator.
TheoremC25 ==
    SchemaReturned =>
        /\ {"@context", "@type"} \subseteq DOMAIN result
        /\ result["@context"] = "https://schema.org"
        /\ result["@type"] = TopLevelType

WitnessC25 ==
    /\ pc = "done"
    /\ fn = "createEnhancedFAQSchema"
    /\ args.faqs = <<>>
    /\ result["@context"] = "https://schema.org"
    /\ result["@type"] = "FAQPage"
    /\ result.mainEntity = <<>>

(***************************************************************************)
(* JSON.parse(JSON.stringify(value)) on the values the generators return   *)
(***************************************************************************)
\* typeof value, with arrays told from other objects; ToString quotes a
\* string, and prints an array behind "<" and an object behind "[" or "(".
TypeOf(value) ==
    LET first == SubSeq(ToString(value), 1, 1)
    IN  CASE first = "\"" -> "string"
          [] first = "<" -> "array"
          [] first \in {"[", "("} -> "object"
          [] first \in {"T", "F"} -> "boolean"
          [] OTHER -> "number"

IsUndefined(value) ==
    /\ TypeOf(value) = "object"
    /\ DOMAIN value = {"undefined"}

Null == [null |-> TRUE]

\* JSON.stringify leaves out a property whose value is undefined and writes
\* null for an undefined array element; JSON.parse reads back what was
\* written.
RECURSIVE JSONRoundTrip(_)
JSONRoundTrip(value) ==
    CASE TypeOf(value) = "object" ->
           [k \in {key \in DOMAIN value : ~IsUndefined(value[key])} |->
               JSONRoundTrip(value[k])]
      [] TypeOf(value) = "array" ->
           [i \in DOMAIN value |->
               IF IsUndefined(value[i]) THEN Null ELSE JSONRoundTrip(value[i])]
      [] OTHER -> value

\* The properties of the object generateAIMetadata returns whose value is
\* undefined for the config: those copied from an optional field the config
\* omits, and timeRequired also for an estimatedTime of 0.
UndefinedKeys(cfg) ==
    {"timeRequired" : x \in {0} \cap {IF Has(cfg, "estimatedTime")
                                       THEN cfg.estimatedTime ELSE 0}}
    \cup {"teaches" : x \in {"learningObjectives"} \ DOMAIN cfg}
    \cup {"requires" : x \in {"prerequisites"} \ DOMAIN cfg}
    \cup {"applicationExample" : x \in {"practicalApplications"} \ DOMAIN cfg}
    \cup {"isRelatedTo" : x \in {"relatedConcepts"} \ DOMAIN cfg}

Restrict(obj, keys) == [k \in keys |-> obj[k]]

MetadataRoundTrip ==
    LET parsed == JSONRoundTrip(result)
        kept == DOMAIN result \ UndefinedKeys(args)
        aboutKept == DOMAIN result.about
                     \ {"subcategory" : x \in {"subcategory"} \ DOMAIN args}
    IN  /\ DOMAIN parsed = kept
        /\ Restrict(parsed, kept \ {"about"}) = Restrict(result, kept \ {"about"})
        /\ parsed.about = Restrict(result.about, aboutKept)
        /\ \A key \in UndefinedKeys(args) : result[key] = Undefined

\* C26 as stated: the object each of the five generators returns equals
\* its JSON round trip, key set included, for every input.
ClaimC26 ==
    pc = "done" => JSONRoundTrip(result) = result

\* C26: the objects the four advancedSEO schema generators return equal
\* their JSON round trip for every input.  The object generateAIMetadata
\* returns holds the value undefined under timeRequired, teaches, requires,
\* applicationExample, isRelatedTo and about.subcategory when the config
\* omits the field copied there (timeRequired also for estimatedTime 0);
\* its round trip lacks exactly those keys and equals it everywhere else.
TheoremC26 ==
    pc = "done" =>
        IF fn = "generateAIMetadata"
        THEN MetadataRoundTrip
        ELSE JSONRoundTrip(result) = result

WitnessC26 ==
    /\ pc = "done"
    /\ fn = "generateAIMetadata"
    /\ DOMAIN args = {"domain", "category", "concepts", "difficulty"}
    /\ result.timeRequired = Undefined
    /\ "timeRequired" \notin DOMAIN JSONRoundTrip(result)
    /\ "subcategory" \notin DOMAIN JSONRoundTrip(result).about

(***************************************************************************)
(* Properties of generateConceptGraph                                      *)
(***************************************************************************)
Range(seq) == {seq[i] : i \in DOMAIN seq}

GraphReturned == pc = "done" /\ fn = "generateConceptGraph"

NodeIds == {result.nodes[i].id : i \in DOMAIN result.nodes}

EdgesOf(relationship) ==
    {result.edges[i] : i \in {j \in DOMAIN result.edges :
                                 result.edges[j].relationship = relationship}}

NodePerConcept ==
    /\ Len(result.nodes) = Len(args)
    /\ \A i \in DOMAIN args :
           result.nodes[i] = [id |-> args[i].term, label |-> args[i].term,
                              category |-> args[i].category,
                              definition |-> args[i].definition]

\* C27 as stated: one node per concept in input order, and both ends of
\* every edge, related_to or synonym_of, are ids of nodes of the graph.
ClaimC27 ==
    GraphReturned =>
        /\ NodePerConcept
        /\ \A i \in DOMAIN result.edges :
               /\ result.edges[i].source \in NodeIds
               /\ result.edges[i].target \in NodeIds

\* C27: the graph has one node per input concept in input order; every
\* edge is a related_to or a synonym_of edge whose source is the id of a
\* node; the target of a related_to edge is the id of a node, a related
\* term that is no concept's term giving no edge; the synonym_of edges are
\* one from each concept to each of its synonyms, whether or not the
\* synonym is the id of a node.
TheoremC27 ==
    GraphReturned =>
        /\ NodePerConcept
        /\ \A i \in DOMAIN result.edges :
               /\ result.edges[i].relationship \in {"related_to", "synonym_of"}
               /\ result.edges[i].source \in NodeIds
        /\ EdgesOf("related_to") =
               UNION {{Edge(args[i].term, related, "related_to") :
                          related \in NodeIds \cap
                              Range(OrDefault(args[i], "relatedTerms", <<>>))} :
                      i \in DOMAIN args}
        /\ EdgesOf("synonym_of") =
               UNION {{Edge(args[i].term, synonym, "synonym_of") :
                          synonym \in Range(OrDefault(args[i], "synonyms", <<>>))} :
                      i \in DOMAIN args}

WitnessC27 ==
    /\ GraphReturned
    /\ Len(args) = 2
    /\ \E edge \in EdgesOf("synonym_of") : edge.target \notin NodeIds
    /\ \E edge \in EdgesOf("related_to") : edge.target \in NodeIds
    /\ \E i \in DOMAIN args :
           /\ Has(args[i], "relatedTerms")
           /\ Range(args[i].relatedTerms) \ NodeIds # {}

(***************************************************************************)
(* Properties of generateAdvancedSEO                                       *)
(***************************************************************************)
AdvancedSEOReturned == pc = "done" /\ fn = "generateAdvancedSEO"

Mirrored ==
    result.jsonLD = <<result.structuredData.product,
                      result.structuredData.article,
                      result.structuredData.aiOptimized>>

\* C28 as stated: jsonLD holds three elements, structurally equal to
\* structuredData.product, structuredData.article and
\* structuredData.aiOptimized in this order, for every config.  Without
\* lastUpdated the two calls of a generator can read different times.
ClaimC28 == AdvancedSEOReturned => Mirrored

\* jsonLD has three elements of the three types in the claimed order, and
\* mirrors structuredData when lastUpdated is supplied.
MirroredWithLastUpdated ==
    AdvancedSEOReturned =>
        /\ Len(result.jsonLD) = 3
        /\ <<result.jsonLD[1]["@type"], result.jsonLD[2]["@type"],
             result.jsonLD[3]["@type"]>> =
               <<"SoftwareApplication", "TechnicalArticle", "WebPage">>
        /\ Has(args, "lastUpdated") => Mirrored

ReadingTimes ==
    <<result.twitterCard["twitter:data2"],
      result.structuredData.article.timeRequired,
      result.aiMetaTags["ai:reading-time"]>>

ReadingTimesOf(minutes) ==
    <<ToString(minutes) \o " min", "PT" \o ToString(minutes) \o "M",
      ToString(minutes)>>

\* C29 as stated: 'twitter:data2' = 'N min', timeRequired = 'PTNM' and
\* 'ai:reading-time' = 'N' for one N, the supplied readingTime or 5 when it
\* is omitted.  For a supplied readingTime of 0 the first two are computed
\* from 5 and the third from 0.
ClaimC29 ==
    AdvancedSEOReturned =>
        ReadingTimes = ReadingTimesOf(OrDefault(args, "readingTime", 5))

\* The three outputs agree for an omitted and for a non-zero readingTime.
ReadingTimesAgreeUnlessZero ==
    AdvancedSEOReturned /\ OrDefault(args, "readingTime", 5) # 0 =>
        ReadingTimes = ReadingTimesOf(OrDefault(args, "readingTime", 5))

(***************************************************************************)
(* Order of the errors of validateHeadingStructure                         *)
(***************************************************************************)
\* The k-th smallest position of a set of positions.
NthPosition(positions, k) ==
    CHOOSE p \in positions : Cardinality({q \in positions : q < p}) = k - 1

H1ErrorCount == IF Cardinality(H1Positions) = 1 THEN 0 ELSE 1

JumpErrorAt(p) ==
    "Heading level jump from H" \o ToString(headings[p - 1].level) \o " to H"
        \o ToString(headings[p].level) \o " - avoid skipping levels"

ShortErrorAt(p) ==
    "Heading " \o ToString(p) \o " is too short - use descriptive text"

\* C30: the errors list is the Rule-1 error (missing or multiple H1), if
\* any, then one level-jump error per skipping pair in document order, then
\* one too-short error per short entry in document order, and nothing else;
\* so errors[0] is a level-jump error only when the sequence has exactly one
\* level-1 entry.
TheoremC30 ==
    Validated =>
        LET errors == validation.errors
            jumps == Cardinality(SkipPositions)
            shorts == Cardinality(ShortPositions)
        IN  /\ Len(errors) = H1ErrorCount + jumps + shorts
            /\ H1ErrorCount = 1 =>
                   \/ /\ H1Positions = {}
                      /\ StartsWith(errors[1], "Missing H1 tag")
                   \/ /\ Cardinality(H1Positions) > 1
                      /\ StartsWith(errors[1], "Multiple H1 tags found")
            /\ \A k \in 1..jumps :
                   errors[H1ErrorCount + k] =
                       JumpErrorAt(NthPosition(SkipPositions, k))
            /\ \A k \in 1..shorts :
                   errors[H1ErrorCount + jumps + k] =
                       ShortErrorAt(NthPosition(ShortPositions, k))
            /\ (errors # <<>> /\ StartsWith(errors[1], "Heading level jump"))
                   => Cardinality(H1Positions) = 1

\* All three kinds of error in one result, with two level jumps in document
\* order before a too-short error of an earlier entry.
WitnessC30 ==
    /\ Validated
    /\ Len(headings) = 3
    /\ H1Positions = {}
    /\ SkipPositions = {2, 3}
    /\ ShortPositions = {1}
    /\ Len(validation.errors) = 4
    /\ StartsWith(validation.errors[1], "Missing H1 tag")
    /\ validation.errors[2] = JumpErrorAt(2)
    /\ validation.errors[3] = JumpErrorAt(3)
    /\ validation.errors[4] = ShortErrorAt(1)

====
